---- MODULE Spec2Model ----
(***************************************************************************)
(* Traffic-intake pipeline and bounded multi-stream event store.           *)
(*                                                                         *)
(* The store is three Redis streams driven through ContextBusClient        *)
(* (src/api/utils/redis_client.py); the pipeline and the admin endpoints   *)
(* are the FastAPI handlers of src/api/index.py.  Every Redis command is   *)
(* one atomic step; a handler is a sequence of such steps and of external  *)
(* calls, so handlers of different requests interleave between commands.   *)
(*                                                                         *)
(* Stream ids are Redis ids <<ms, seq>>: XADD with id "*" takes the server *)
(* clock when it is past the stream's last generated id and otherwise      *)
(* bumps the sequence number of the last generated id.                     *)
(***************************************************************************)
EXTENDS Integers, Sequences, FiniteSets, TLC

\* ------------------------------------------------------------------ bounds
\* Reports submitted to /api/traffic-intake.
NumReports == 2
\* Largest value of the server clock (milliseconds, abstracted).
MaxClock == 2
\* Appends made through ContextBusClient by all callers together.
MaxAppends == 5
\* Largest sequence number of an id a client names in a request.
MaxNamedSeq == 1
\* Admin requests (flag, add, archive, clear) served.
MaxAdminOps == 2
\* ContextBusClient.MAX_STREAM_LENGTH is 1000; the model runs it scaled down
\* so that eviction happens within the bounds.
MAX_STREAM_LENGTH == 3
\* delete_all_rejected_events reads get_rejected_events(count=1000): the
\* literal equals MAX_STREAM_LENGTH and is scaled with it.
REJECTED_READ_COUNT == MAX_STREAM_LENGTH

\* ------------------------------------------------------------- the store
STREAM_KEY == "context:events"
\* Mutant: the filtered stream is kept under the rejected stream's key.
FILTERED_STREAM_KEY_Rejected == "context:rejected"

FILTERED_STREAM_KEY == "context:filtered"
REJECTED_STREAM_KEY == "context:rejected"
StreamKeys == {STREAM_KEY, FILTERED_STREAM_KEY, REJECTED_STREAM_KEY}

\* "0-0": the last generated id of a stream nothing was added to.
ZeroId == <<0, 0>>
\* Python's None for an event id.
NoneId == <<-1, 0>>

Reports == 1 .. NumReports

VARIABLES
    now,        \* the store's clock
    stream,     \* stream[k]: the entries of stream k, oldest first
    lastId,     \* lastId[k]: the last id generated in stream k
    rpt,        \* rpt[r]: the handler state of report r
    adm,        \* the admin request being served, and its response
    nAdm,       \* admin requests started
    issued,     \* history: issued[k], the ids XADD returned in k, in order
    removed,    \* history: removed[k], ids taken out of k by XDEL or XTRIM 0
    archived    \* history: archive requests that answered success

vars == <<now, stream, lastId, rpt, adm, nAdm, issued, removed, archived>>

IdLess(a, b) == a[1] < b[1] \/ (a[1] = b[1] /\ a[2] < b[2])
IdLeq(a, b) == a = b \/ IdLess(a, b)

Ids(k) == {stream[k][i].id : i \in 1 .. Len(stream[k])}
IdSeq(s) == [i \in 1 .. Len(s) |-> s[i].id]
TotalAppends == Len(issued[STREAM_KEY]) + Len(issued[FILTERED_STREAM_KEY])
                  + Len(issued[REJECTED_STREAM_KEY])

\* Mutant: the id is taken from the clock alone.
NextId_ClockOnly(k) == <<now, 0>>

\* The id Redis generates for XADD key "*".
NextId(k) ==
    IF now > lastId[k][1] THEN <<now, 0>>
    ELSE <<lastId[k][1], lastId[k][2] + 1>>

\* Mutant: the newest entries go instead of the oldest.
TrimOldest_DropsNewest(s, n) ==
    IF Len(s) > n THEN SubSeq(s, 1, n) ELSE s

\* MAXLEN n: the oldest entries go until n are left.
TrimOldest(s, n) ==
    IF Len(s) > n THEN SubSeq(s, Len(s) - n + 1, Len(s)) ELSE s

\* Mutant: maxlen is not passed, nothing is trimmed.
XAddStream_NoMaxlen(k, data, maxlen) ==
    Append(stream[k], [data EXCEPT !.id = NextId(k)])

\* XADD key * data MAXLEN maxlen, as the three add_* methods issue it.
XAddStream(k, data, maxlen) ==
    TrimOldest(Append(stream[k], [data EXCEPT !.id = NextId(k)]), maxlen)

XAdd(k, data) ==
    /\ stream' = [stream EXCEPT ![k] = XAddStream(k, data, MAX_STREAM_LENGTH)]
    /\ lastId' = [lastId EXCEPT ![k] = NextId(k)]
    /\ issued' = [issued EXCEPT ![k] = Append(@, NextId(k))]

\* Mutant: the XDEL takes every entry up to the id with it.
XDelStream_UpTo(k, id) == SelectSeq(stream[k], LAMBDA e : IdLess(id, e.id))

\* Mutant: the XDEL is left out.
XDelStream_Skipped(k, id) == stream[k]

\* XDEL key id.
XDelStream(k, id) == SelectSeq(stream[k], LAMBDA e : e.id # id)

\* Mutant: the range is read from the oldest entry on.
XRevRange_OldestFirst(k, count) ==
    LET s == stream[k]
        n == IF Len(s) < count THEN Len(s) ELSE count
    IN  [i \in 1 .. n |-> s[i]]

\* XREVRANGE key + - COUNT count: newest first.
XRevRange(k, count) ==
    LET s == stream[k]
        n == IF Len(s) < count THEN Len(s) ELSE count
    IN  [i \in 1 .. n |-> s[Len(s) - i + 1]]

\* get_recent_events: the formatted entries, or [] when the read raised.
GetRecentEvents(k, count, raised) ==
    IF raised THEN <<>> ELSE XRevRange(k, count)

\* An entry as the add_* methods build it.  rep and src tell whose entry it
\* is (metadata "source"); lat/lon are the metadata coordinates; orig is
\* metadata "original_event_id"; severity is metadata "severity", which only
\* the entries of /api/traffic-intake have.
NoCoord == "none"
\* The keys context_metadata of /api/traffic-intake can hold (lines 977-983,
\* 1022-1024).
ContextMetadataKeys ==
    {"display_name", "severity", "reason", "attachments", "source",
     "latitude", "longitude"}
Event(src, rep, lat, lon, orig) ==
    [id |-> NoneId, src |-> src, rep |-> rep, lat |-> lat, lon |-> lon,
     orig |-> orig, severity |-> "none"]

IdleAdm == [pc |-> "idle"]

\* A request to /api/traffic-intake before its handler ran: the handler's
\* locals at their defaults (is_traffic_related False, ids None).  calls
\* (the external calls made), wrote (the streams appended to) and
\* store_failed (the bus was missing or an append raised) are history, and
\* so are text and parsed_payload, which the specifications of the keyword
\* filter and of extract_json_block record.
NewReport ==
    [pc |-> "new", text |-> <<>>, parsed_payload |-> "unset",
     hasText |-> FALSE, hasAttachments |-> FALSE,
     traffic_relevance_reason |-> "unset", nemotron_summary |-> "unset",
     severity |-> "unset", refined_summary |-> "unset", rationale |-> "unset",
     rejected_event_id |-> NoneId, latitude |-> NoCoord,
     longitude |-> NoCoord, has_traffic_keywords |-> FALSE,
     is_traffic_related |-> FALSE, include_flag |-> FALSE,
     main_event_id |-> NoneId, filtered_event_id |-> NoneId,
     todo |-> <<>>, calls |-> <<>>, wrote |-> <<>>, store_failed |-> FALSE]

Init ==
    /\ now = 1
    /\ stream = [k \in StreamKeys |-> <<>>]
    /\ lastId = [k \in StreamKeys |-> ZeroId]
    /\ rpt = [r \in Reports |-> NewReport]
    /\ adm = IdleAdm
    /\ nAdm = 0
    /\ issued = [k \in StreamKeys |-> <<>>]
    /\ removed = [k \in StreamKeys |-> {}]
    /\ archived = {}

\* The server clock advances.
Tick ==
    /\ now < MaxClock
    /\ now' = now + 1
    /\ UNCHANGED <<stream, lastId, rpt, adm, nAdm, issued, removed, archived>>

\* A writer to the rejected stream while delete_all_rejected_events sits
\* between its read and its trim is recorded in the request (history only).
NoteWriter(k) ==
    adm' = IF adm.pc = "clear_trim" /\ k = REJECTED_STREAM_KEY
           THEN [adm EXCEPT !.interfered = TRUE]
           ELSE adm

\* Any caller of add_event / add_filtered_event / add_rejected_event.
ClientAppend(k) ==
    /\ TotalAppends < MaxAppends
    /\ XAdd(k, Event("client", 0, NoCoord, NoCoord, NoneId))
    /\ NoteWriter(k)
    /\ UNCHANGED <<now, rpt, nAdm, removed, archived>>

\* ------------------------------------------------------- admin endpoints
\* Ids a client may name in a request: sequence numbers up to MaxNamedSeq.
IdUniverse == (1 .. MaxClock) \X (0 .. MaxNamedSeq)

AdmFree == adm.pc \in {"idle", "resp"} /\ nAdm < MaxAdminOps

\* Mutant: success is reported only when an entry was deleted.
DeleteEventResult_NeedsHit(raised, hitMain, hitFiltered) ==
    ~raised /\ (hitMain \/ hitFiltered)

\* delete_event's result: True once both XDEL went through, whatever they
\* removed; False when one raised.
DeleteEventResult(raised, hitMain, hitFiltered) == ~raised

\* archive_event's answer for delete_event's result.  raised, hitMain,
\* hitFiltered and again (the id was archived before) are history.
ArchiveResponse(id, success, raised, hitMain, hitFiltered, again) ==
    [pc |-> "resp", op |-> "archive", id |-> id,
     status |-> IF success THEN 200 ELSE 500, success |-> success,
     raised |-> raised, hitMain |-> hitMain, hitFiltered |-> hitFiltered,
     again |-> again]

\* The report whose answer gave id as its main_event_id, 0 when there is
\* none (history: what the caller of archive_event can have the id from).
AnsweredWith(id) ==
    IF \E r \in Reports : rpt[r].pc = "done" /\ rpt[r].main_event_id = id
    THEN CHOOSE r \in Reports :
             rpt[r].pc = "done" /\ rpt[r].main_event_id = id
    ELSE 0

\* archive_event, first command: delete_event's XDEL on the main stream.
ArchiveXdelMain(id, busNone, raised) ==
    /\ AdmFree
    /\ nAdm' = nAdm + 1
    /\ LET hit == id \in Ids(STREAM_KEY)
           again == \E a \in archived : a.id = id
       IN  IF busNone
           THEN /\ adm' = [pc |-> "resp", op |-> "archive", id |-> id,
                           status |-> 503, success |-> FALSE, raised |-> FALSE,
                           hitMain |-> FALSE, hitFiltered |-> FALSE,
                           again |-> again]
                /\ UNCHANGED <<stream, removed>>
           ELSE IF raised
           THEN /\ adm' = ArchiveResponse(id,
                              DeleteEventResult(TRUE, FALSE, FALSE),
                              TRUE, FALSE, FALSE, again)
                /\ UNCHANGED <<stream, removed>>
           ELSE /\ stream' = [stream EXCEPT
                                 ![STREAM_KEY] = XDelStream(STREAM_KEY, id)]
                /\ removed' = [removed EXCEPT ![STREAM_KEY] =
                                 IF hit THEN @ \cup {id} ELSE @]
                /\ adm' = [pc |-> "archive_filtered", id |-> id,
                           hitMain |-> hit, again |-> again,
                           pastMain |-> IdLeq(id, lastId[STREAM_KEY]),
                           rep |-> AnsweredWith(id)]
    /\ UNCHANGED <<now, lastId, rpt, issued, archived>>

\* archive_event, second command: XDEL on the filtered stream, then the
\* answer.
ArchiveXdelFiltered(raised) ==
    /\ adm.pc = "archive_filtered"
    /\ LET id == adm.id
           hit == ~raised /\ id \in Ids(FILTERED_STREAM_KEY)
           success == DeleteEventResult(raised, adm.hitMain, hit)
       IN  /\ stream' = IF raised THEN stream
                        ELSE [stream EXCEPT ![FILTERED_STREAM_KEY] =
                                XDelStream(FILTERED_STREAM_KEY, id)]
           /\ removed' = [removed EXCEPT ![FILTERED_STREAM_KEY] =
                            IF hit THEN @ \cup {id} ELSE @]
           /\ adm' = ArchiveResponse(id, success, raised, adm.hitMain, hit,
                                     adm.again)
           /\ archived' = IF success
                          THEN archived \cup {[id |-> id,
                                   pastMain |-> adm.pastMain,
                                   pastFiltered |->
                                     IdLeq(id, lastId[FILTERED_STREAM_KEY])]}
                          ELSE archived
    /\ UNCHANGED <<now, lastId, rpt, nAdm, issued>>

\* delete_all_rejected_events, first command: count what a read of the
\* rejected stream returns.  lenAtCall, readRaised and interfered are
\* history.
ClearRead(busNone, raised) ==
    /\ AdmFree
    /\ nAdm' = nAdm + 1
    /\ adm' = IF busNone
              THEN [pc |-> "resp", op |-> "clear", status |-> 503]
              ELSE [pc |-> "clear_trim",
                    count_before |-> Len(GetRecentEvents(REJECTED_STREAM_KEY,
                                           REJECTED_READ_COUNT, raised)),
                    lenAtCall |-> Len(stream[REJECTED_STREAM_KEY]),
                    readRaised |-> raised,
                    interfered |-> FALSE]
    /\ UNCHANGED <<now, stream, lastId, rpt, issued, removed, archived>>

\* delete_all_rejected_events, second command: clear_rejected_stream's
\* XTRIM MAXLEN 0, then the answer with the count read before.
ClearTrim(raised) ==
    /\ adm.pc = "clear_trim"
    /\ IF raised
       THEN /\ adm' = [pc |-> "resp", op |-> "clear", status |-> 500]
            /\ UNCHANGED <<stream, removed>>
       ELSE /\ stream' = [stream EXCEPT ![REJECTED_STREAM_KEY] =
                             TrimOldest(@, 0)]
            /\ removed' = [removed EXCEPT ![REJECTED_STREAM_KEY] =
                             @ \cup Ids(REJECTED_STREAM_KEY)]
            /\ adm' = [pc |-> "resp", op |-> "clear", status |-> 200,
                       deleted_count |-> adm.count_before]
    /\ UNCHANGED <<now, lastId, rpt, nAdm, issued, archived>>

\* Mutant: the update does not name the event it is about.
FlagEvent_Unlinked(event_id) ==
    Event("flag-update", 0, NoCoord, NoCoord, NoneId)

\* The entry flag_event appends: update_metadata holds the flagged event's
\* id as original_event_id and "flag-update" as source.
FlagEvent(event_id) ==
    Event("flag-update", 0, NoCoord, NoCoord, event_id)

\* flag_event, first append: the update goes to the main stream.  (The
\* summary call before it only words the prompt and falls back on failure.)
FlagAddEvent(event_id, busNone, raised) ==
    /\ AdmFree
    /\ nAdm' = nAdm + 1
    /\ IF busNone \/ raised
       THEN /\ adm' = [pc |-> "resp", op |-> "flag",
                       status |-> IF busNone THEN 503 ELSE 500]
            /\ UNCHANGED <<stream, lastId, issued>>
       ELSE /\ XAdd(STREAM_KEY, FlagEvent(event_id))
            /\ adm' = [pc |-> "flag_filtered", event_id |-> event_id,
                       update_id |-> NextId(STREAM_KEY)]
    /\ UNCHANGED <<now, rpt, removed, archived>>

\* Mutant: the failed flag takes its update out of the main stream again.
AfterFlagFailure_Rollback(update_id) ==
    [stream EXCEPT ![STREAM_KEY] = SelectSeq(@, LAMBDA e : e.id # update_id)]

\* The streams after flag_event's except clause (lines 1213-1217): it only
\* builds the 500 answer, the update appended before stays where it is.
AfterFlagFailure(update_id) == stream

\* flag_event, second append: the same update goes to the filtered stream.
FlagAddFiltered(raised) ==
    /\ adm.pc = "flag_filtered"
    /\ IF raised
       THEN /\ adm' = [pc |-> "resp", op |-> "flag", status |-> 500]
            /\ stream' = AfterFlagFailure(adm.update_id)
            /\ UNCHANGED <<lastId, issued>>
       ELSE /\ XAdd(FILTERED_STREAM_KEY, FlagEvent(adm.event_id))
            /\ adm' = [pc |-> "resp", op |-> "flag", status |-> 200,
                       update_id |-> adm.update_id,
                       filtered_id |-> NextId(FILTERED_STREAM_KEY)]
    /\ UNCHANGED <<now, rpt, nAdm, removed, archived>>

\* add_context_event: filter_and_store's add_event.
AddContextMain(should_filter, busNone, raised) ==
    /\ AdmFree
    /\ nAdm' = nAdm + 1
    /\ IF busNone \/ raised
       THEN /\ adm' = [pc |-> "resp", op |-> "add",
                       status |-> IF busNone THEN 503 ELSE 500]
            /\ UNCHANGED <<stream, lastId, issued>>
       ELSE /\ XAdd(STREAM_KEY, Event("client", 0, NoCoord, NoCoord, NoneId))
            /\ adm' = IF should_filter
                      THEN [pc |-> "add_filtered",
                            main_event_id |-> NextId(STREAM_KEY)]
                      ELSE [pc |-> "resp", op |-> "add", status |-> 200,
                            main_event_id |-> NextId(STREAM_KEY),
                            filtered_event_id |-> NoneId]
    /\ UNCHANGED <<now, rpt, removed, archived>>

\* add_context_event: filter_and_store's add_filtered_event.
AddContextFiltered(raised) ==
    /\ adm.pc = "add_filtered"
    /\ IF raised
       THEN /\ adm' = [pc |-> "resp", op |-> "add", status |-> 500]
            /\ UNCHANGED <<stream, lastId, issued>>
       ELSE /\ XAdd(FILTERED_STREAM_KEY,
                    Event("client", 0, NoCoord, NoCoord, NoneId))
            /\ adm' = [pc |-> "resp", op |-> "add", status |-> 200,
                       main_event_id |-> adm.main_event_id,
                       filtered_event_id |-> NextId(FILTERED_STREAM_KEY)]
    /\ UNCHANGED <<now, rpt, nAdm, removed, archived>>

\* handle_chat_data: the last message's text goes to filter_and_store with
\* should_filter True; a missing bus and any exception are swallowed and the
\* chat goes on.  First append: add_event.
ChatAddEvent(busNone, raised) ==
    /\ AdmFree
    /\ nAdm' = nAdm + 1
    /\ IF busNone \/ raised
       THEN /\ adm' = [pc |-> "resp", op |-> "chat", status |-> 200]
            /\ UNCHANGED <<stream, lastId, issued>>
       ELSE /\ XAdd(STREAM_KEY, Event("client", 0, NoCoord, NoCoord, NoneId))
            /\ adm' = [pc |-> "chat_filtered"]
    /\ UNCHANGED <<now, rpt, removed, archived>>

\* handle_chat_data, second append: add_filtered_event.
ChatAddFiltered(raised) ==
    /\ adm.pc = "chat_filtered"
    /\ IF raised
       THEN UNCHANGED <<stream, lastId, issued>>
       ELSE XAdd(FILTERED_STREAM_KEY,
                 Event("client", 0, NoCoord, NoCoord, NoneId))
    /\ adm' = [pc |-> "resp", op |-> "chat", status |-> 200]
    /\ UNCHANGED <<now, rpt, nAdm, removed, archived>>

\* --------------------------------------------------------- read endpoints
\* The counts a client asks for (the endpoints accept 1..100).
ReadCounts == {1, MAX_STREAM_LENGTH}

\* get_context_events / get_filtered_events / get_rejected_events: 503
\* without a bus; otherwise whatever get_recent_events returns, which is []
\* when the XREVRANGE raised.  key, count and unreachable are history.
ListRecent(k, count, busNone, raised) ==
    /\ AdmFree
    /\ nAdm' = nAdm + 1
    /\ adm' = IF busNone
              THEN [pc |-> "resp", op |-> "list", key |-> k, count |-> count,
                    status |-> 503, events |-> <<>>, unreachable |-> TRUE]
              ELSE [pc |-> "resp", op |-> "list", key |-> k, count |-> count,
                    status |-> 200,
                    events |-> IdSeq(GetRecentEvents(k, count, raised)),
                    unreachable |-> raised]
    /\ UNCHANGED <<now, stream, lastId, rpt, issued, removed, archived>>

\* Mutant: the length counts every entry ever appended.
SafeGetStreamLength_EverAppended(k, raised) ==
    IF raised THEN 0 ELSE Len(issued[k])

\* safe_get_stream_length: XLEN, or 0 when it raised.
SafeGetStreamLength(k, raised) == IF raised THEN 0 ELSE Len(stream[k])

\* safe_get_last_id: the id of the newest entry, or "0-0" when the stream is
\* empty or the XREVRANGE raised.
SafeGetLastId(k, raised) ==
    IF raised \/ XRevRange(k, 1) = <<>> THEN ZeroId ELSE XRevRange(k, 1)[1].id

\* get_context_stats: 503 without a bus; otherwise get_stream_info, each of
\* whose four commands falls back on its own.
StatCommands == {"xlen_main", "xlen_filtered", "xlen_rejected", "last_id"}
GetContextStats(busNone, raised) ==
    /\ AdmFree
    /\ nAdm' = nAdm + 1
    /\ adm' = IF busNone
              THEN [pc |-> "resp", op |-> "stats", status |-> 503,
                    unreachable |-> TRUE]
              ELSE [pc |-> "resp", op |-> "stats", status |-> 200,
                    total_events |->
                        SafeGetStreamLength(STREAM_KEY, raised["xlen_main"]),
                    memory_events |->
                        SafeGetStreamLength(FILTERED_STREAM_KEY,
                                            raised["xlen_filtered"]),
                    filtered_events |->
                        SafeGetStreamLength(REJECTED_STREAM_KEY,
                                            raised["xlen_rejected"]),
                    last_event_id |->
                        SafeGetLastId(STREAM_KEY, raised["last_id"]),
                    unreachable |-> \E c \in StatCommands : raised[c]]
    /\ UNCHANGED <<now, stream, lastId, rpt, issued, removed, archived>>

\* One read request.
Read ==
    \/ \E k \in StreamKeys, count \in ReadCounts, busNone, raised \in BOOLEAN :
           ListRecent(k, count, busNone, raised)
    \/ \E busNone \in BOOLEAN, raised \in [StatCommands -> BOOLEAN] :
           GetContextStats(busNone, raised)

\* ------------------------------------------------- the intake pipeline
\* A text is a sequence of characters.
Str3(a, b, c) == <<a, b, c>>
Str4(a, b, c, d) == <<a, b, c, d>>

\* str.lower() on the characters the model uses.
LowerChar(c) ==
    CASE c = "S" -> "s" [] c = "P" -> "p" [] c = "A" -> "a" [] c = "M" -> "m"
      [] c = "J" -> "j" [] c = "T" -> "t" [] OTHER -> c
Lower(s) == [i \in 1 .. Len(s) |-> LowerChar(s[i])]

\* str.strip(): leading and trailing whitespace goes.
RECURSIVE LStrip(_)
LStrip(s) == IF s # <<>> /\ Head(s) = " " THEN LStrip(Tail(s)) ELSE s
RECURSIVE RStrip(_)
RStrip(s) ==
    IF s # <<>> /\ s[Len(s)] = " " THEN RStrip(SubSeq(s, 1, Len(s) - 1)) ELSE s
Strip(s) == RStrip(LStrip(s))

\* Python's `p in s` on strings: p is a contiguous part of s.
Contains(s, p) ==
    \E i \in 1 .. Len(s) - Len(p) + 1 : SubSeq(s, i, i + Len(p) - 1) = p

\* reject_phrases and traffic_keywords, one entry of each list standing for
\* the list: 'spam' and 'jam'.
reject_phrases == {Str4("s", "p", "a", "m")}

\* Mutant: the bare word "traffic" is a keyword too (the list of the source
\* has "heavy traffic" only).
traffic_keywords_Traffic ==
    {Str3("j", "a", "m"), <<"t", "r", "a", "f", "f", "i", "c">>}

traffic_keywords == {Str3("j", "a", "m")}

\* "Traffic report with attachments"
PLACEHOLDER_TEXT ==
    <<"T", "r", "a", "f", "f", "i", "c", " ", "r", "e", "p", "o", "r", "t",
      " ", "w", "i", "t", "h", " ", "a", "t", "t", "a", "c", "h", "m", "e",
      "n", "t", "s">>

\* The report texts the two-report specification draws from: blank, a
\* reject phrase only, a traffic keyword only, both, neither.
Texts ==
    {<<" ">>, Str4("S", "p", "a", "m"), Str3("j", "a", "m"),
     Str4("s", "p", "a", "m") \o Str3("J", "A", "M"), Str3("s", "p", "a")}

\* The texts of the single-report specification: every concatenation of
\* three pieces, so that phrases appear in any case, inside longer words,
\* split over pieces, and beside whitespace.
TextPieces ==
    {<<>>, <<" ">>, <<"x">>, <<"s", "p">>, <<"a", "m">>, <<"j">>,
     <<"J", "A", "M">>, <<"S", "P">>, Str4("s", "p", "a", "m"),
     Str3("j", "a", "m")}
AllTexts == {u \o v \o w : u \in TextPieces, v \in TextPieces, w \in TextPieces}

\* text_content (line 726).
TextContent(text) == IF Strip(text) # <<>> THEN Strip(text) ELSE PLACEHOLDER_TEXT

HasRejectPhrases(text_content) ==
    \E p \in reject_phrases : Contains(Lower(text_content), p)
HasTrafficKeywords(text_content) ==
    \E k \in traffic_keywords : Contains(Lower(text_content), k)

\* Mutant: a traffic keyword outweighs a reject phrase.
KeywordFilter_KeywordsWin(text_content) == HasTrafficKeywords(text_content)

\* The keyword filter: has_traffic_keywords as it stands at line 776.
KeywordFilter(text_content) ==
    IF HasRejectPhrases(text_content) THEN FALSE
    ELSE HasTrafficKeywords(text_content)

\* Mutant: a report with nothing in it passes validation.
ValidationFails_Never(text, attachments) == FALSE

\* `if not text.strip() and not attachments` (lines 694-698).
ValidationFails(text, attachments) == Strip(text) = <<>> /\ ~attachments

\* Mutant: the AI filter is called whatever the keyword filter said.
AfterKeywordFilter_AlwaysClassify(has_traffic_keywords) == "classify"

\* Where the handler goes after the keyword filter: to the AI filter only if
\* keywords were found; otherwise no external call is left to make.
AfterKeywordFilter(has_traffic_keywords) ==
    IF has_traffic_keywords THEN "classify" ELSE "store"

\* What the AI filter call can come back with: an exception; no text; text
\* without JSON in it; JSON that is not an object (a number); an object
\* without is_traffic_related; an object with it, with or without "reason".
\* Its value is true or false, or no boolean: null ("null") or a string
\* that is not empty ("text").
ClassifierFailures == {"raise", "empty", "unparsable", "not_object", "no_field"}
ClassifierOutcomes ==
    ClassifierFailures \cup {"true", "false", "true_no_reason",
                             "false_no_reason", "null", "text"}

\* The value of is_traffic_related in the object the AI filter returned.
FieldValue(out) ==
    CASE out \in {"true", "true_no_reason"} -> "true"
      [] out \in {"false", "false_no_reason"} -> "false"
      [] out = "null" -> "null"
      [] out = "text" -> "text"

\* Mutant: only the value false counts as a rejection.
Bool_OnlyFalse(value) == value # "false"

\* Python's bool() of a JSON value (line 844): null is false, a string that
\* is not empty is true.
Bool(value) == value \in {"true", "text"}

\* Mutant: a classifier that cannot be understood rejects the report.
Classified_DefaultDeny(out) == out \in {"true", "true_no_reason"}

\* is_traffic_related after the AI filter answered out.
Classified(out) ==
    CASE out = "raise" -> TRUE
      [] out = "empty" -> TRUE
      [] out = "unparsable" -> TRUE
      [] out = "not_object" -> TRUE
      [] out = "no_field" -> TRUE
      [] out = "true" -> Bool(FieldValue(out))
      [] out = "true_no_reason" -> Bool(FieldValue(out))
      [] out = "false" -> Bool(FieldValue(out))
      [] out = "false_no_reason" -> Bool(FieldValue(out))
      [] out = "null" -> Bool(FieldValue(out))
      [] out = "text" -> Bool(FieldValue(out))

\* traffic_relevance_reason before the AI filter (lines 731, 776-779).
REASON_DEFAULT == "Default rejection for security"
REASON_NO_KEYWORDS == "No traffic keywords detected - immediate rejection"
KeywordReason(has_traffic_keywords) ==
    IF has_traffic_keywords THEN REASON_DEFAULT ELSE REASON_NO_KEYWORDS

\* The reasons that record a fallback (lines 835, 852, 860).
REASON_EMPTY == "AI returned empty response but keywords detected - accepted"
REASON_PARSING == "AI parsing failed but keywords detected - accepted"
REASON_ERROR == "AI error but keywords detected - accepted"
FallbackReasons == {REASON_EMPTY, REASON_PARSING, REASON_ERROR}

\* traffic_relevance_reason after the AI filter answered out.  A JSON value
\* that is not an object raises in `"is_traffic_related" in relevance_data`
\* and lands in the except branch.
RelevanceReason(out) ==
    CASE out \in {"raise", "not_object"} -> REASON_ERROR
      [] out = "empty" -> REASON_EMPTY
      [] out \in {"unparsable", "no_field"} -> REASON_PARSING
      [] out \in {"true", "false", "null", "text"} -> "reason given by the AI"
      [] out = "true_no_reason" -> "AI confirmed traffic-related"
      [] out = "false_no_reason" -> "AI rejected as non-traffic"

\* What the summary call can come back with: text, "", no choices, or an
\* exception (a None content raises in .strip()).
SummarizerOutcomes == {"ok", "empty", "no_choices", "raise"}
TEXT_CONTENT == "text_content"

\* nemotron_summary of a relevant report (lines 865-896).
NemotronSummary(out) ==
    CASE out = "ok" -> "summarizer output"
      [] out = "empty" -> ""
      [] out = "no_choices" -> TEXT_CONTENT
      [] out = "raise" -> TEXT_CONTENT

\* nemotron_summary and the forced evaluation of a report that is not
\* relevant (lines 897-911).
NON_TRAFFIC_SUMMARY == "[NON-TRAFFIC]: text_content"

\* Mutant: the forced evaluation leaves the severity open.
ForcedEvaluation_Unknown ==
    [include_in_context |-> FALSE, severity |-> "unknown",
     summary |-> "[FILTERED - Non-traffic content]: [NON-TRAFFIC]: text_content",
     reason |-> "Content rejected by traffic filter: traffic_relevance_reason"]

ForcedEvaluation ==
    [include_in_context |-> FALSE, severity |-> "irrelevant",
     summary |-> "[FILTERED - Non-traffic content]: [NON-TRAFFIC]: text_content",
     reason |-> "Content rejected by traffic filter: traffic_relevance_reason"]

\* What the evaluation call can come back with: an exception, no text, text
\* without a JSON object in it, or an object whose include_in_context is
\* truthy, falsy or missing.
EvaluatorFailures == {"raise", "empty", "unparsable"}
EvaluatorOutcomes ==
    EvaluatorFailures \cup {"include_true", "include_false", "include_missing"}

\* The other keys of a parsed object, each missing or present.
MISSING == "missing"
NoFields == [severity |-> MISSING, summary |-> MISSING, reason |-> MISSING]
EvaluatorFields ==
    {NoFields,
     [severity |-> "HIGH", summary |-> "evaluator summary",
      reason |-> "evaluator reason"],
     [severity |-> "HIGH", summary |-> MISSING, reason |-> "evaluator reason"],
     [severity |-> MISSING, summary |-> "evaluator summary", reason |-> MISSING],
     [severity |-> "critical", summary |-> "", reason |-> ""],
     [severity |-> "", summary |-> MISSING, reason |-> MISSING],
     [severity |-> "low", summary |-> MISSING, reason |-> MISSING]}

\* include_flag after the evaluator answered out (the default payload has
\* include_in_context True; a parsed object overrides it).
IncludeFlag(out) == out # "include_false"

\* The default evaluation of a relevant report (lines 914-919).
DEFAULT_REASON == "Traffic report submitted by operator"
DefaultEvaluation(nemotron_summary) ==
    [severity |-> "medium", summary |-> nemotron_summary,
     reason |-> DEFAULT_REASON]

\* dict.setdefault on one key of the parsed object (lines 957-960).
SetDefault(value, default) == IF value = MISSING THEN default ELSE value

\* Mutant: a failed evaluation call empties the payload.
EvaluationPayload_NoFallback(nemotron_summary, out, fields) ==
    IF out \in EvaluatorFailures
    THEN [severity |-> "unknown", summary |-> "", reason |-> ""]
    ELSE [severity |-> SetDefault(fields.severity, "medium"),
          summary |-> SetDefault(fields.summary, nemotron_summary),
          reason |-> SetDefault(fields.reason, DEFAULT_REASON)]

\* evaluation_payload after the evaluation call (lines 914-966): the default
\* payload, updated with the parsed object when there is one.
EvaluationPayload(nemotron_summary, out, fields) ==
    IF out \in EvaluatorFailures
    THEN DefaultEvaluation(nemotron_summary)
    ELSE [severity |-> SetDefault(fields.severity, "medium"),
          summary |-> SetDefault(fields.summary, nemotron_summary),
          reason |-> SetDefault(fields.reason, DEFAULT_REASON)]

\* Mutant: the evaluator's severity is passed on as it came.
Severity_Unchecked(value) == value

\* severity, refined_summary and rationale (lines 969-973).
Severity(value) ==
    CASE value = "HIGH" -> "high"
      [] value \in {"low", "medium", "high", "irrelevant"} -> value
      [] OTHER -> "unknown"
RefinedSummary(value, nemotron_summary) ==
    IF value = "" THEN nemotron_summary ELSE value
Rationale(value) == IF value = "" THEN "No rationale provided." ELSE value

\* Mutant: coordinates go into the metadata whatever the relevance.
MetadataCoords_AnyRelevance(latitude, longitude, is_traffic_related) ==
    IF latitude # NoCoord /\ longitude # NoCoord
    THEN <<latitude, longitude>> ELSE <<NoCoord, NoCoord>>

\* Mutant: only the agent's coordinates go into the metadata.
MetadataCoords_AgentOnly(latitude, longitude, is_traffic_related) ==
    IF latitude = "agent" /\ longitude = "agent" /\ is_traffic_related
    THEN <<latitude, longitude>> ELSE <<NoCoord, NoCoord>>

\* The coordinates context_metadata gets (lines 1022-1029).
MetadataCoords(latitude, longitude, is_traffic_related) ==
    IF latitude # NoCoord /\ longitude # NoCoord /\ is_traffic_related
    THEN <<latitude, longitude>> ELSE <<NoCoord, NoCoord>>

\* Mutant: what is not escalated is logged as rejected.
Route_RejectsUnescalated(is_traffic_related, include_flag) ==
    IF is_traffic_related /\ include_flag THEN <<FILTERED_STREAM_KEY>>
    ELSE <<REJECTED_STREAM_KEY>>

\* Mutant: an escalated report is logged as rejected too.
Route_Both(is_traffic_related, include_flag) ==
    IF ~is_traffic_related THEN <<REJECTED_STREAM_KEY>>
    ELSE IF include_flag THEN <<FILTERED_STREAM_KEY, REJECTED_STREAM_KEY>>
    ELSE <<>>

\* The streams written after the main stream (lines 1042-1063).
Route(is_traffic_related, include_flag) ==
    IF ~is_traffic_related THEN <<REJECTED_STREAM_KEY>>
    ELSE IF include_flag THEN <<FILTERED_STREAM_KEY>>
    ELSE <<>>

\* An external call and what came back, as kept in calls (history).  resent
\* tells whether the request went out more than once: get_nvidia_client
\* builds the OpenAI client without max_retries (lines 77-80), and the
\* client then sends a request again after a connection error, a timeout or
\* a 408, 409, 429 or 5xx answer before create() returns or raises.  The
\* httpx client of the geocoder sends a request once.
Call(name, out, fields, resent) ==
    [call |-> name, out |-> out, fields |-> fields, resent |-> resent]

\* process_traffic_intake up to the keyword filter: validation, the NVIDIA
\* client, the attachments, text_content and the keyword filter.  A report
\* the keyword filter rejects gets the forced evaluation (include False).
Intake(r, text, attachments, latitude, longitude, setup) ==
    /\ rpt[r].pc = "new"
    /\ setup = "bad_attachment" => attachments
    /\ LET kw == KeywordFilter(TextContent(text))
       IN  rpt' = [rpt EXCEPT ![r] =
             IF ValidationFails(text, attachments)
             THEN [@ EXCEPT !.pc = "http_400",
                            !.hasText = Strip(text) # <<>>,
                            !.hasAttachments = attachments]
             ELSE IF setup # "ok"
             THEN [@ EXCEPT !.pc = "http_error",
                            !.hasText = Strip(text) # <<>>,
                            !.hasAttachments = attachments]
             ELSE [@ EXCEPT !.pc = AfterKeywordFilter(kw),
                            !.hasText = Strip(text) # <<>>,
                            !.hasAttachments = attachments,
                            !.latitude = latitude,
                            !.longitude = longitude,
                            !.has_traffic_keywords = kw,
                            !.traffic_relevance_reason = KeywordReason(kw),
                            !.nemotron_summary =
                                IF kw THEN TEXT_CONTENT ELSE NON_TRAFFIC_SUMMARY,
                            !.severity =
                                IF kw THEN @ ELSE ForcedEvaluation.severity,
                            !.refined_summary =
                                IF kw THEN @ ELSE ForcedEvaluation.summary,
                            !.rationale =
                                IF kw THEN @ ELSE ForcedEvaluation.reason]]
    /\ UNCHANGED <<now, stream, lastId, adm, nAdm, issued, removed, archived>>

\* Mutant: the summary and the evaluation are asked for every report.
AfterClassify_Always(rel) == "summarize"

\* What follows the relevance filter: the summary and the evaluation for a
\* relevant report (lines 865, 912), the forced evaluation and the store
\* for the others (lines 897-911).
AfterClassify(rel) == IF rel THEN "summarize" ELSE "store"

\* The AI relevance filter (lines 784-861).  A report it rejects gets the
\* forced evaluation.
Classify(r, out, resent) ==
    /\ rpt[r].pc = "classify"
    /\ LET rel == Classified(out)
       IN  rpt' = [rpt EXCEPT ![r] =
             [@ EXCEPT !.is_traffic_related = rel,
                       !.traffic_relevance_reason = RelevanceReason(out),
                       !.calls = Append(@, Call("classifier", out, NoFields, resent)),
                       !.nemotron_summary =
                           IF rel THEN @ ELSE NON_TRAFFIC_SUMMARY,
                       !.severity = IF rel THEN @ ELSE ForcedEvaluation.severity,
                       !.refined_summary =
                           IF rel THEN @ ELSE ForcedEvaluation.summary,
                       !.rationale = IF rel THEN @ ELSE ForcedEvaluation.reason,
                       !.pc = AfterClassify(rel)]]
    /\ UNCHANGED <<now, stream, lastId, adm, nAdm, issued, removed, archived>>

\* The summary call (lines 865-896); a failure keeps text_content.
Summarize(r, out, resent) ==
    /\ rpt[r].pc = "summarize"
    /\ rpt' = [rpt EXCEPT ![r] =
                 [@ EXCEPT !.nemotron_summary = NemotronSummary(out),
                           !.calls = Append(@, Call("summarizer", out, NoFields, resent)),
                           !.pc = "evaluate"]]
    /\ UNCHANGED <<now, stream, lastId, adm, nAdm, issued, removed, archived>>

\* The evaluation call and what is read from its payload (lines 912-973).
Evaluate(r, out, fields, resent) ==
    /\ rpt[r].pc = "evaluate"
    /\ LET payload == EvaluationPayload(rpt[r].nemotron_summary, out, fields)
       IN  rpt' = [rpt EXCEPT ![r] =
             [@ EXCEPT !.include_flag = IncludeFlag(out),
                       !.severity = Severity(payload.severity),
                       !.refined_summary =
                           RefinedSummary(payload.summary,
                                          rpt[r].nemotron_summary),
                       !.rationale = Rationale(payload.reason),
                       !.calls = Append(@, Call("evaluator", out, fields, resent)),
                       !.pc = IF rpt[r].hasText THEN "geocode" ELSE "store"]]
    /\ UNCHANGED <<now, stream, lastId, adm, nAdm, issued, removed, archived>>

\* The geocoding call (lines 985-1019): made for a relevant report with
\* text.  Without TOOLHOUSE_AGENT_URL nothing is sent ("skipped"); an HTTP
\* error or a timeout is "failed".  A 2xx answer whose JSON body is not an
\* object raises AttributeError in trigger_toolhouse_agent (line 390), which
\* nothing catches: the request ends in a 500.
GeocoderOutcomes == {"skipped", "failed", "no_coords", "coords", "not_object"}

\* Mutant: a coordinate the caller sent is kept.
GeocodedCoord_UserWins(out, sent) ==
    IF sent # NoCoord THEN sent
    ELSE IF out = "coords" THEN "agent" ELSE sent

\* latitude (longitude) after the geocoding call (lines 999-1017): the
\* agent's value, written with up to ten decimals, when coordinates were
\* read from a completed call, the value the caller sent otherwise.
GeocodedCoord(out, sent) == IF out = "coords" THEN "agent" ELSE sent
Geocode(r, out) ==
    /\ rpt[r].pc = "geocode"
    /\ rpt' = [rpt EXCEPT ![r] =
                 [@ EXCEPT !.latitude = GeocodedCoord(out, @),
                           !.longitude = GeocodedCoord(out, @),
                           !.calls = IF out = "skipped" THEN @
                                      ELSE Append(@, Call("geocoder", out,
                                                          NoFields, FALSE)),
                           !.pc = IF out = "not_object" THEN "http_500"
                                  ELSE "store"]]
    /\ UNCHANGED <<now, stream, lastId, adm, nAdm, issued, removed, archived>>

\* The entry a report writes: context_metadata with its coordinates.
ReportEvent(r) ==
    LET c == MetadataCoords(rpt[r].latitude, rpt[r].longitude,
                            rpt[r].is_traffic_related)
    IN  [Event("traffic-intake", r, c[1], c[2], NoneId)
            EXCEPT !.severity = rpt[r].severity]

\* Mutant: a failing store fails the request.
AfterStoreFailure_Propagates == "http_500"

\* Where the handler goes when the bus is missing or an append raised: the
\* except branch prints a warning and the response is built (lines 1064-1098).
AfterStoreFailure == "done"

\* Mutant: the id add_event returned is not kept.
ResponseMainId_Dropped(id) == NoneId

\* main_event_id after add_event returned id (line 1035).
ResponseMainId(id) == id

\* get_context_bus and add_event (lines 1031-1039); every failure is
\* swallowed and the handler answers.
StoreMain(r, busNone, raised) ==
    /\ rpt[r].pc = "store"
    /\ IF busNone \/ raised
       THEN /\ rpt' = [rpt EXCEPT ![r] = [@ EXCEPT !.pc = AfterStoreFailure,
                                                   !.store_failed = TRUE]]
            /\ UNCHANGED <<stream, lastId, issued, adm>>
       ELSE /\ XAdd(STREAM_KEY, ReportEvent(r))
            /\ NoteWriter(STREAM_KEY)
            /\ LET todo == Route(rpt[r].is_traffic_related,
                                 rpt[r].include_flag)
               IN  rpt' = [rpt EXCEPT ![r] =
                     [@ EXCEPT !.main_event_id =
                                  ResponseMainId(NextId(STREAM_KEY)),
                               !.wrote = Append(@, STREAM_KEY),
                               !.todo = todo,
                               !.pc = IF todo = <<>> THEN "done"
                                      ELSE "route"]]
    /\ UNCHANGED <<now, nAdm, removed, archived>>

\* filtered_event_id after the append to stream k returned id: the rejected
\* branch sets it to None (lines 1044-1049), the filtered branch to the id
\* (line 1053).
ResponseRoutedId(k, id) == IF k = FILTERED_STREAM_KEY THEN id ELSE NoneId

\* add_rejected_event or add_filtered_event (lines 1042-1065); only the
\* filtered stream's id is kept in filtered_event_id.
StoreRouted(r, raised) ==
    /\ rpt[r].pc = "route"
    /\ LET k == Head(rpt[r].todo)
           rest == Tail(rpt[r].todo)
       IN  IF raised
           THEN /\ rpt' = [rpt EXCEPT ![r] = [@ EXCEPT !.pc = AfterStoreFailure,
                                                       !.store_failed = TRUE]]
                /\ UNCHANGED <<stream, lastId, issued, adm>>
           ELSE /\ XAdd(k, ReportEvent(r))
                /\ NoteWriter(k)
                /\ rpt' = [rpt EXCEPT ![r] =
                     [@ EXCEPT !.filtered_event_id =
                                  ResponseRoutedId(k, NextId(k)),
                               !.rejected_event_id =
                                  IF k = REJECTED_STREAM_KEY THEN NextId(k)
                                  ELSE @,
                               !.wrote = Append(@, k),
                               !.todo = rest,
                               !.pc = IF rest = <<>> THEN "done"
                                      ELSE "route"]]
    /\ UNCHANGED <<now, nAdm, removed, archived>>

\* ----- extract_json_block (lines 144-172) on sequences of characters.
\* "a" stands for a member of an object ("severity": "high"), "7" for a
\* number, " " for any whitespace, "~" for a backquote (three make a
\* fence), "x" for any other character.
FENCE == <<"~", "~", "~">>
JSON_TAG == <<"j", "s", "o", "n">>
StartsWith(s, p) == Len(s) >= Len(p) /\ SubSeq(s, 1, Len(p)) = p
NoSpace(s) == SelectSeq(s, LAMBDA c : c # " ")

\* json.loads: the value read, or DECODE_ERROR for JSONDecodeError.  An
\* empty object is "{}", an object with the member "{a}", a number "7".
DECODE_ERROR == "JSONDecodeError"
JsonLoads(s) ==
    CASE NoSpace(s) = <<"{", "}">> -> "{}"
      [] NoSpace(s) = <<"{", "a", "}">> -> "{a}"
      [] Strip(s) = <<"7">> -> "7"
      [] OTHER -> DECODE_ERROR

\* trimmed.split(fence, maxsplit=2)[1] (lines 151-156) for a text that
\* starts with the fence: what follows it, up to the next fence if any.
AfterFence(trimmed) ==
    LET rest == SubSeq(trimmed, Len(FENCE) + 1, Len(trimmed))
        ends == {i \in 1 .. Len(rest) - Len(FENCE) + 1 :
                    SubSeq(rest, i, i + Len(FENCE) - 1) = FENCE}
    IN  IF ends = {} THEN rest
        ELSE SubSeq(rest, 1, (CHOOSE i \in ends : \A j \in ends : i <= j) - 1)

\* Lines 148-158: the text with its fence and its json tag removed.
Trimmed(payload) ==
    LET t1 == Strip(payload)
        t2 == IF StartsWith(t1, FENCE) THEN Strip(AfterFence(t1)) ELSE t1
    IN  IF StartsWith(t2, JSON_TAG)
        THEN Strip(SubSeq(t2, Len(JSON_TAG) + 1, Len(t2)))
        ELSE t2

\* Lines 163-171: the text from the first "{" to the last "}" of the
\* payload, when there are both in that order.
Snippet(payload) ==
    LET opens == {i \in 1 .. Len(payload) : payload[i] = "{"}
        closes == {i \in 1 .. Len(payload) : payload[i] = "}"}
        start == CHOOSE i \in opens : \A j \in opens : i <= j
        end == CHOOSE i \in closes : \A j \in closes : j <= i
    IN  IF opens # {} /\ closes # {} /\ end > start
        THEN SubSeq(payload, start, end)
        ELSE <<>>

\* Mutant: the text is parsed as it came, fence and all.
extract_json_block_NoTrim(payload) ==
    IF payload = <<>> THEN "{}"
    ELSE IF JsonLoads(Strip(payload)) # DECODE_ERROR
    THEN JsonLoads(Strip(payload))
    ELSE "{}"

extract_json_block(payload) ==
    IF payload = <<>> THEN "{}"
    ELSE IF JsonLoads(Trimmed(payload)) # DECODE_ERROR
    THEN JsonLoads(Trimmed(payload))
    ELSE IF Snippet(payload) # <<>>
            /\ JsonLoads(Snippet(payload)) # DECODE_ERROR
    THEN JsonLoads(Snippet(payload))
    ELSE "{}"

\* The payloads extract_json_block is applied to: an opening (nothing, a
\* fence, a fence with its tag in either case, other text), whitespace, a
\* body, whitespace, a closing.
PayloadOpenings ==
    {<<>>, FENCE, FENCE \o JSON_TAG, FENCE \o <<"J", "S", "O", "N">>,
     <<"x">>, JSON_TAG}
PayloadBodies ==
    {<<>>, <<"{", "}">>, <<"{", "a", "}">>, <<"{", " ", "a", " ", "}">>,
     <<"{", "a">>, <<"a", "}">>, <<"}", "a", "{">>, <<"7">>, <<"x">>,
     <<"{", "a", "}", "{", "a", "}">>, <<"{", "x", "}">>}
PayloadClosings == {<<>>, FENCE, <<"x">>, <<"}">>, FENCE \o <<"x">>}
Blanks == {<<>>, <<" ">>}
Payloads ==
    {o \o b1 \o body \o b2 \o c :
        o \in PayloadOpenings, b1 \in Blanks, body \in PayloadBodies,
        b2 \in Blanks, c \in PayloadClosings}

\* extract_json_block on its own: the payload is kept beside the result.
ApplyExtractJsonBlock(r, payload) ==
    /\ rpt[r].pc = "new"
    /\ rpt' = [rpt EXCEPT ![r] =
                 [@ EXCEPT !.text = payload,
                           !.parsed_payload = extract_json_block(payload),
                           !.pc = "extracted"]]
    /\ UNCHANGED <<now, stream, lastId, adm, nAdm, issued, removed, archived>>

\* Lines 726-781 on their own: text_content is built from the text and the
\* keyword filter decides has_traffic_keywords.  The text is kept beside the
\* result.
ApplyKeywordFilter(r, text) ==
    /\ rpt[r].pc = "new"
    /\ rpt' = [rpt EXCEPT ![r] =
                 [@ EXCEPT !.text = text,
                           !.has_traffic_keywords =
                               KeywordFilter(TextContent(text)),
                           !.pc = "filtered"]]
    /\ UNCHANGED <<now, stream, lastId, adm, nAdm, issued, removed, archived>>

\* The body of the 200 answer (lines 1067-1098), toolhouse_last_checked (the
\* time of the answer) left out.  toolhouse_result is the literal of line
\* 1069 whatever the geocoding call did.
TOOLHOUSE_STATUS == "skipped - coordinates already extracted"
Response(r) ==
    [include_in_context |-> rpt[r].include_flag,
     summary |-> rpt[r].refined_summary,
     reason |-> rpt[r].rationale,
     severity |-> rpt[r].severity,
     main_event_id |-> rpt[r].main_event_id,
     filtered_event_id |-> rpt[r].filtered_event_id,
     toolhouse_status |-> TOOLHOUSE_STATUS,
     toolhouse_run_id |-> NoneId,
     is_traffic_related |-> rpt[r].is_traffic_related,
     traffic_filter_reason |-> rpt[r].traffic_relevance_reason,
     nemotron_summary |-> rpt[r].nemotron_summary,
     hasAttachments |-> rpt[r].hasAttachments,
     routing_decision |->
         IF rpt[r].is_traffic_related /\ rpt[r].include_flag THEN "Memory"
         ELSE "Filtered only"]

UserCoords == {NoCoord, "user"}

\* The steps of the handler of report r that follow the keyword filter,
\* the external calls answering from the given sets.
Calls(r, classifier, summarizer, evaluator, fields, resends) ==
    \/ \E out \in classifier, resent \in resends : Classify(r, out, resent)
    \/ \E out \in summarizer, resent \in resends : Summarize(r, out, resent)
    \/ \E out \in evaluator, f \in fields, resent \in resends :
           Evaluate(r, out, f, resent)
    \/ \E out \in GeocoderOutcomes : Geocode(r, out)
    \/ \E busNone, raised \in BOOLEAN : StoreMain(r, busNone, raised)
    \/ \E raised \in BOOLEAN : StoreRouted(r, raised)

\* One step of the handler of report r when several reports run side by
\* side: one text of each kind, attachments only where validation looks at
\* them, and one answer of each external call per route.
Pipeline(r) ==
    \/ /\ rpt[r].pc = "new"
       /\ \E text \in Texts, attachments \in BOOLEAN,
             latitude, longitude \in UserCoords,
             setup \in {"ok", "no_key", "bad_attachment"} :
              /\ attachments => Strip(text) = <<>>
              /\ Intake(r, text, attachments, latitude, longitude, setup)
    \/ Calls(r, {"raise", "true", "false"}, {"ok"},
             {"include_true", "include_false"}, {NoFields}, {FALSE})

\* One step of the handler of report r, every input and every answer drawn,
\* each request going out once.
Report(r) ==
    \/ /\ rpt[r].pc = "new"
       /\ \E text \in AllTexts, attachments \in BOOLEAN,
             latitude, longitude \in UserCoords,
             setup \in {"ok", "no_key", "bad_attachment"} :
              Intake(r, text, attachments, latitude, longitude, setup)
    \/ Calls(r, ClassifierOutcomes, SummarizerOutcomes, EvaluatorOutcomes,
             EvaluatorFields, {FALSE})

\* One step of the handler of report r, the requests of the OpenAI client
\* going out once or again: one text of each kind and one answer of each
\* call per route.
ReportResending(r) ==
    \/ /\ rpt[r].pc = "new"
       /\ \E text \in Texts, attachments \in BOOLEAN,
             latitude, longitude \in UserCoords,
             setup \in {"ok", "no_key", "bad_attachment"} :
              /\ attachments => Strip(text) = <<>>
              /\ Intake(r, text, attachments, latitude, longitude, setup)
    \/ Calls(r, {"raise", "true", "false"}, {"ok", "raise"},
             {"include_true", "include_false", "raise"}, {NoFields}, BOOLEAN)

\* One step of an admin request.
Admin ==
    \/ \E id \in IdUniverse, busNone, raised \in BOOLEAN :
           FlagAddEvent(id, busNone, raised)
    \/ \E raised \in BOOLEAN : FlagAddFiltered(raised)
    \/ \E should_filter, busNone, raised \in BOOLEAN :
           AddContextMain(should_filter, busNone, raised)
    \/ \E raised \in BOOLEAN : AddContextFiltered(raised)
    \/ \E id \in IdUniverse, busNone, raised \in BOOLEAN :
           ArchiveXdelMain(id, busNone, raised)
    \/ \E raised \in BOOLEAN : ArchiveXdelFiltered(raised)
    \/ \E busNone, raised \in BOOLEAN : ClearRead(busNone, raised)
    \/ \E raised \in BOOLEAN : ClearTrim(raised)

\* ------------------------------------- concurrent intake of the reports
Next ==
    \/ Tick
    \/ \E r \in Reports : Pipeline(r)

Spec == Init /\ [][Next]_vars

\* ------------------------------ one report beside the admin endpoints
NextAdmin ==
    \/ Tick
    \/ Pipeline(1)
    \/ Admin

SpecAdmin == Init /\ [][NextAdmin]_vars

\* ------------- every operation that writes, on a store already in use
\* The streams outlive the server: the main stream holds two entries that
\* earlier calls of add_context_event appended, before the clock's first
\* value.
EarlierEntries ==
    <<[Event("client", 0, NoCoord, NoCoord, NoneId) EXCEPT !.id = <<0, 1>>],
      [Event("client", 0, NoCoord, NoCoord, NoneId) EXCEPT !.id = <<0, 2>>]>>

InitLifecycle ==
    /\ now = 1
    /\ stream = [k \in StreamKeys |->
                    IF k = STREAM_KEY THEN EarlierEntries ELSE <<>>]
    /\ lastId = [k \in StreamKeys |->
                    IF k = STREAM_KEY THEN <<0, 2>> ELSE ZeroId]
    /\ rpt = [r \in Reports |-> NewReport]
    /\ adm = IdleAdm
    /\ nAdm = 0
    /\ issued = [k \in StreamKeys |->
                    IF k = STREAM_KEY THEN IdSeq(EarlierEntries) ELSE <<>>]
    /\ removed = [k \in StreamKeys |-> {}]
    /\ archived = {}

Chat ==
    \/ \E busNone, raised \in BOOLEAN : ChatAddEvent(busNone, raised)
    \/ \E raised \in BOOLEAN : ChatAddFiltered(raised)

NextLifecycle ==
    \/ Pipeline(1)
    \/ Admin
    \/ Chat

SpecLifecycle == InitLifecycle /\ [][NextLifecycle]_vars

\* ------------------------- one report, every input and every answer
NextReport == Report(1)

SpecReport == Init /\ [][NextReport]_vars

\* ------------------------------------------------ the store on its own
NextStore ==
    \/ Tick
    \/ \E k \in StreamKeys : ClientAppend(k)
    \/ \E id \in IdUniverse, busNone, raised \in BOOLEAN :
           ArchiveXdelMain(id, busNone, raised)
    \/ \E raised \in BOOLEAN : ArchiveXdelFiltered(raised)
    \/ \E busNone, raised \in BOOLEAN : ClearRead(busNone, raised)
    \/ \E raised \in BOOLEAN : ClearTrim(raised)

SpecStore == Init /\ [][NextStore]_vars

\* ------------------- one report whose handler is never left suspended
\* Every external call and every store command returns or raises within its
\* timeout, so a handler that can take a step eventually takes one.
SpecLive == Init /\ [][NextReport]_vars /\ WF_vars(Report(1))

\* ------------------------------------- the keyword filter on every text
NextKeywordFilter == \E text \in AllTexts : ApplyKeywordFilter(1, text)

SpecKeywordFilter == Init /\ [][NextKeywordFilter]_vars

\* --------------------- one report, requests going out once or again
NextResending == ReportResending(1)

SpecResending == Init /\ [][NextResending]_vars

\* -------------------------------- extract_json_block on every payload
NextExtractJsonBlock ==
    \E payload \in Payloads : ApplyExtractJsonBlock(1, payload)

SpecExtractJsonBlock == Init /\ [][NextExtractJsonBlock]_vars

\* ------------------------------------------ the store and flag_event
NextFlag ==
    \/ Tick
    \/ \E k \in StreamKeys : ClientAppend(k)
    \/ \E id \in IdUniverse, busNone, raised \in BOOLEAN :
           FlagAddEvent(id, busNone, raised)
    \/ \E raised \in BOOLEAN : FlagAddFiltered(raised)

SpecFlag == Init /\ [][NextFlag]_vars

\* ------------------------------------------- the store and its readers
NextRead ==
    \/ Tick
    \/ \E k \in StreamKeys : ClientAppend(k)
    \/ \E id \in IdUniverse, busNone, raised \in BOOLEAN :
           ArchiveXdelMain(id, busNone, raised)
    \/ \E raised \in BOOLEAN : ArchiveXdelFiltered(raised)
    \/ Read

SpecRead == Init /\ [][NextRead]_vars

\* ---------------------------------------------------------------- claims
\* The handler of report r has answered 200.
Done(r) == rpt[r].pc = "done"
\* The handler of report r is past the keyword filter.
Filtered(r) == rpt[r].pc \notin {"new", "http_400", "http_error"}
\* How many entries report r appended to stream k.
Wrote(r, k) ==
    Cardinality({i \in 1 .. Len(rpt[r].wrote) : rpt[r].wrote[i] = k})
IsPrefix(s, t) == Len(s) <= Len(t) /\ s = SubSeq(t, 1, Len(s))

\* C1 as stated: a report whose handler has answered has exactly one entry
\* appended to the main stream and at most one to the filtered and the
\* rejected stream together.
C1_ExactlyOneAudit ==
    \A r \in Reports : Done(r) =>
        /\ Wrote(r, STREAM_KEY) = 1
        /\ Wrote(r, FILTERED_STREAM_KEY) + Wrote(r, REJECTED_STREAM_KEY) <= 1

\* C1 amended: a report never has more than one entry appended to the main
\* stream, has exactly one whenever its answer carries a main_event_id, and
\* never has more than one appended to the filtered and the rejected stream
\* together.
C1_OneAuditWhenStored ==
    \A r \in Reports :
        /\ Wrote(r, STREAM_KEY) <= 1
        /\ Wrote(r, FILTERED_STREAM_KEY) + Wrote(r, REJECTED_STREAM_KEY) <= 1
        /\ Done(r) =>
             (rpt[r].main_event_id # NoneId <=> Wrote(r, STREAM_KEY) = 1)

\* C1 witness: a report answered after one append to the main stream and
\* one to the filtered stream.
C1_Witness ==
    \E r \in Reports :
        /\ Done(r)
        /\ rpt[r].main_event_id # NoneId
        /\ rpt[r].wrote = <<STREAM_KEY, FILTERED_STREAM_KEY>>

\* C2: what a report appends after the main stream is decided by
\* (is_traffic_related, include_flag) alone: the rejected stream when not
\* relevant, the filtered stream when relevant and included, nothing when
\* relevant and not included.  A failing store cuts the appends short and
\* never redirects them.
C2_RouteTable ==
    \A r \in Reports :
        LET rel == rpt[r].is_traffic_related
            inc == rpt[r].include_flag
            table == IF ~rel THEN <<STREAM_KEY, REJECTED_STREAM_KEY>>
                     ELSE IF inc THEN <<STREAM_KEY, FILTERED_STREAM_KEY>>
                     ELSE <<STREAM_KEY>>
        IN  /\ IsPrefix(rpt[r].wrote, table)
            /\ (Done(r) /\ ~rpt[r].store_failed) => rpt[r].wrote = table

\* C2 witness: a relevant report that is not included answered with the
\* main stream alone written.
C2_Witness ==
    \E r \in Reports :
        /\ Done(r) /\ ~rpt[r].store_failed
        /\ rpt[r].is_traffic_related /\ ~rpt[r].include_flag
        /\ rpt[r].wrote = <<STREAM_KEY>>

\* C3: a report the keyword filter rejects is not relevant, has no external
\* call made for it at any point, is never appended to the filtered stream,
\* and is appended to the main and the rejected stream when the store works.
C3_PrefilterRejects ==
    \A r \in Reports : (Filtered(r) /\ ~rpt[r].has_traffic_keywords) =>
        /\ ~rpt[r].is_traffic_related
        /\ rpt[r].calls = <<>>
        /\ Wrote(r, FILTERED_STREAM_KEY) = 0
        /\ (Done(r) /\ ~rpt[r].store_failed) =>
              rpt[r].wrote = <<STREAM_KEY, REJECTED_STREAM_KEY>>

\* C3 witness: a report the keyword filter rejected has answered and sits
\* in the rejected stream.
C3_Witness ==
    \E r \in Reports :
        /\ Done(r) /\ ~rpt[r].has_traffic_keywords
        /\ rpt[r].wrote = <<STREAM_KEY, REJECTED_STREAM_KEY>>
        /\ \E i \in 1 .. Len(stream[REJECTED_STREAM_KEY]) :
               stream[REJECTED_STREAM_KEY][i].rep = r

\* C4: no entry of any stream written for a report that is not relevant
\* carries a latitude or a longitude.
C4_NoCoordsWhenIrrelevant ==
    \A k \in StreamKeys : \A i \in 1 .. Len(stream[k]) :
        LET e == stream[k][i]
        IN  (e.src = "traffic-intake" /\ ~rpt[e.rep].is_traffic_related) =>
                (e.lat = NoCoord /\ e.lon = NoCoord)

\* C4 witness: a report submitted with both GPS coordinates was rejected by
\* the AI filter and has its entry in the rejected stream.
C4_Witness ==
    \E i \in 1 .. Len(stream[REJECTED_STREAM_KEY]) :
        LET e == stream[REJECTED_STREAM_KEY][i]
        IN  /\ e.src = "traffic-intake"
            /\ ~rpt[e.rep].is_traffic_related
            /\ rpt[e.rep].has_traffic_keywords
            /\ rpt[e.rep].latitude = "user" /\ rpt[e.rep].longitude = "user"

IsSuffix(s, t) == \E n \in 0 .. Len(t) : s = SubSeq(t, n + 1, Len(t))
LastN(s, n) == SubSeq(s, Len(s) - n + 1, Len(s))
StrictlyIncreasing(s) ==
    \A i, j \in 1 .. Len(s) : i < j => IdLess(s[i], s[j])
\* A step that appended to stream k.
Appended(k) == issued'[k] # issued[k]

C7_AtomicAppend ==
    \A k \in StreamKeys :
        /\ StrictlyIncreasing(issued[k])
        /\ LET kept == SelectSeq(issued[k], LAMBDA id : id \notin removed[k])
           IN  /\ Len(stream[k]) <= Len(kept)
               /\ IdSeq(stream[k]) = LastN(kept, Len(stream[k]))
               /\ (issued[k] # <<>> /\ lastId[k] \notin removed[k]) =>
                     (stream[k] # <<>>
                        /\ stream[k][Len(stream[k])].id = lastId[k]
                        /\ lastId[k] = issued[k][Len(issued[k])])

\* C7 witness: two appends reached one stream within the same millisecond
\* and a third stream entry was evicted.
C7_Witness ==
    \E k \in StreamKeys :
        /\ Len(issued[k]) > MAX_STREAM_LENGTH
        /\ issued[k][1][1] = issued[k][2][1]
        /\ Len(stream[k]) = MAX_STREAM_LENGTH

\* A step of archive_event that ran XDEL on stream k for id.
ArchiveStepOn(k, id) ==
    IF k = STREAM_KEY
    THEN /\ adm.pc \in {"idle", "resp"}
         /\ adm'.pc = "archive_filtered"
         /\ adm'.id = id
    ELSE /\ adm.pc = "archive_filtered"
         /\ adm'.pc = "resp"
         /\ adm.id = id

\* C8: archive answers success whenever its two XDEL went through, whether
\* the id was in the main stream, in the filtered stream, in both or in
\* neither, and also when the id was archived before; and an XDEL of an id
\* the stream does not hold changes no stream.
C8_ArchiveIdempotent ==
    /\ []((adm.pc = "resp" /\ adm.op = "archive" /\ adm.status # 503
             /\ ~adm.raised) => (adm.success /\ adm.status = 200))
    /\ [][\A k \in {STREAM_KEY, FILTERED_STREAM_KEY}, id \in IdUniverse :
            (ArchiveStepOn(k, id) /\ id \notin Ids(k)) => stream' = stream]_vars

\* C8 witness: a second archive of an id that is in neither stream answered
\* success.
C8_Witness ==
    /\ adm.pc = "resp" /\ adm.op = "archive"
    /\ adm.again /\ ~adm.hitMain /\ ~adm.hitFiltered
    /\ adm.success

ReadIds(k) ==
    {e.id : e \in {GetRecentEvents(k, MAX_STREAM_LENGTH, FALSE)[i] :
                     i \in 1 .. Len(GetRecentEvents(k, MAX_STREAM_LENGTH, FALSE))}}

\* C9 as stated: once archive answered success for an id, no read of the
\* main or of the filtered stream returns an entry with that id.
C9_NeverReadAgain ==
    \A a \in archived :
        a.id \notin ReadIds(STREAM_KEY) \cup ReadIds(FILTERED_STREAM_KEY)

\* C9 amended: once archive answered success for an id, no read of the main
\* (filtered) stream returns an entry with that id, provided the id was not
\* greater than the last id generated in that stream when its XDEL ran.
C9_NeverReadAgainOnceGenerated ==
    \A a \in archived :
        /\ a.pastMain => a.id \notin ReadIds(STREAM_KEY)
        /\ a.pastFiltered => a.id \notin ReadIds(FILTERED_STREAM_KEY)

\* C9 witness: an id was deleted from the main stream by an archive that
\* answered success, and the stream was appended to afterwards.
C9_Witness ==
    \E a \in archived :
        /\ a.pastMain
        /\ a.id \in removed[STREAM_KEY]
        /\ IdLess(a.id, lastId[STREAM_KEY])
        /\ stream[STREAM_KEY] # <<>>

\* Without a failed read the count is exact.
ClearCountExactWhenRead ==
    [][(adm.pc = "clear_trim" /\ adm'.pc = "resp" /\ adm'.status = 200
          /\ ~adm.interfered /\ ~adm.readRaised) =>
            /\ adm'.deleted_count = adm.lenAtCall
            /\ Len(stream'[REJECTED_STREAM_KEY]) = 0]_vars

\* C10: a clear of the rejected stream that answers success, with no append
\* to the stream between its read and its trim, reports the number of
\* entries the stream held when it was called and leaves the stream empty.
C10_ClearCountExact ==
    [][(adm.pc = "clear_trim" /\ adm'.pc = "resp" /\ adm'.status = 200
          /\ ~adm.interfered) =>
            /\ adm'.deleted_count = adm.lenAtCall
            /\ Len(stream'[REJECTED_STREAM_KEY]) = 0]_vars

\* C11: a missing bus or a raising append never fails the request: the
\* handler answers with its evaluation, the id of the main event is None
\* when the main stream was not written, and filtered_event_id is None when
\* the filtered stream was not written.
C11_StoreFailureSwallowed ==
    \A r \in Reports :
        /\ rpt[r].store_failed => Done(r)
        /\ Done(r) =>
             /\ rpt[r].severity # "unset" /\ rpt[r].rationale # "unset"
             /\ Wrote(r, STREAM_KEY) = 0 => rpt[r].main_event_id = NoneId
             /\ Wrote(r, FILTERED_STREAM_KEY) = 0 =>
                    rpt[r].filtered_event_id = NoneId

\* C11 witness: the append to the filtered stream raised after the main
\* stream was written, and the handler answered with one id and one None.
C11_Witness ==
    \E r \in Reports :
        /\ Done(r) /\ rpt[r].store_failed
        /\ rpt[r].is_traffic_related /\ rpt[r].include_flag
        /\ rpt[r].wrote = <<STREAM_KEY>>
        /\ rpt[r].main_event_id # NoneId
        /\ rpt[r].filtered_event_id = NoneId

\* C12: a read of a stream, or of the statistics, made while the store
\* cannot be reached (no bus, or a command raising) is answered 503.
C12_ReadFailureSurfaced ==
    (adm.pc = "resp" /\ adm.op \in {"list", "stats"} /\ adm.unreachable) =>
        adm.status = 503

\* A read made without a bus is answered 503; one whose command raised is
\* answered 200 with an empty list or with zero counts.
ReadFailureWithoutBusOnly ==
    (adm.pc = "resp" /\ adm.op \in {"list", "stats"}) =>
        /\ adm.status \in {200, 503}
        /\ (adm.op = "list" /\ adm.unreachable /\ adm.status = 200) =>
               adm.events = <<>>

\* What the named call of report r came back with, or "not called".
Answer(r, name) ==
    LET hits == SelectSeq(rpt[r].calls, LAMBDA c : c.call = name)
    IN  IF hits = <<>> THEN "not called" ELSE hits[1].out

\* C13: whenever the AI filter raised, answered nothing, or answered text
\* from which no object with is_traffic_related can be read, the report
\* (which passed the keyword filter) is relevant and its relevance reason
\* is one of the three that record the fallback.
C13_ClassifierFallbackAccepts ==
    \A r \in Reports : Answer(r, "classifier") \in ClassifierFailures =>
        /\ rpt[r].has_traffic_keywords
        /\ rpt[r].is_traffic_related
        /\ rpt[r].traffic_relevance_reason \in FallbackReasons

\* C13 witness: a report was answered as relevant after the AI filter
\* returned text without JSON in it.
C13_Witness ==
    \E r \in Reports :
        /\ Done(r)
        /\ Answer(r, "classifier") = "unparsable"
        /\ rpt[r].is_traffic_related
        /\ rpt[r].traffic_relevance_reason = REASON_PARSING

\* The keys of the object the evaluation call of report r returned.
AnswerFields(r) ==
    SelectSeq(rpt[r].calls, LAMBDA c : c.call = "evaluator")[1].fields

\* C14: for a relevant report neither the summary call nor the evaluation
\* call ends the request when it fails.  A failed summary call leaves the
\* raw text as the summary; a failed evaluation call gives
\* include_in_context True, severity medium, the summarizer's summary and
\* the operator reason; and each key a parsed evaluation lacks takes the
\* same default.
C14_EvaluationFallback ==
    \A r \in Reports :
        /\ rpt[r].pc = "http_500" =>
               /\ Answer(r, "summarizer") # "not called"
               /\ Answer(r, "evaluator") # "not called"
               /\ Answer(r, "geocoder") = "not_object"
        /\ Answer(r, "summarizer") \in {"raise", "no_choices"} =>
               rpt[r].nemotron_summary = TEXT_CONTENT
        /\ Answer(r, "summarizer") = "ok" =>
               rpt[r].nemotron_summary = "summarizer output"
        /\ Answer(r, "evaluator") \in EvaluatorFailures =>
               /\ rpt[r].include_flag
               /\ rpt[r].severity = "medium"
               /\ rpt[r].refined_summary = rpt[r].nemotron_summary
               /\ rpt[r].rationale = DEFAULT_REASON
        /\ Answer(r, "evaluator") \in EvaluatorOutcomes \ EvaluatorFailures =>
               /\ Answer(r, "evaluator") = "include_missing" =>
                      rpt[r].include_flag
               /\ AnswerFields(r).severity = MISSING =>
                      rpt[r].severity = "medium"
               /\ AnswerFields(r).summary = MISSING =>
                      rpt[r].refined_summary = rpt[r].nemotron_summary
               /\ AnswerFields(r).reason = MISSING =>
                      rpt[r].rationale = DEFAULT_REASON

\* C14 witness: a report was answered after its summary call raised and its
\* evaluation call returned text without JSON in it.
C14_Witness ==
    \E r \in Reports :
        /\ Done(r)
        /\ Answer(r, "summarizer") = "raise"
        /\ Answer(r, "evaluator") = "unparsable"
        /\ rpt[r].include_flag
        /\ rpt[r].severity = "medium"
        /\ rpt[r].refined_summary = TEXT_CONTENT

\* The handler of report r is past validation and past the set-up of the
\* NVIDIA client and the attachments.
Started(r) == rpt[r].pc \notin {"new", "http_400", "http_error"}

\* C15: a report that passed validation is eventually answered with a
\* result, whichever of its external calls fail, and has then been appended
\* to the main stream unless the store failed.
C15_EventuallyAnswers ==
    Started(1) ~>
        (Done(1) /\ (rpt[1].store_failed \/ Wrote(1, STREAM_KEY) = 1))

\* The handler is eventually answered with a result unless the geocoding
\* agent answered 2xx with a JSON body that is not an object.
AnswersUnlessGeocoderBodyNotObject ==
    Started(1) ~>
        \/ Done(1) /\ (rpt[1].store_failed \/ Wrote(1, STREAM_KEY) = 1)
        \/ rpt[1].pc = "http_500" /\ Answer(1, "geocoder") = "not_object"

\* The entries report r has in the streams.
EntriesOf(r) ==
    {e \in UNION {{stream[k][i] : i \in 1 .. Len(stream[k])} : k \in StreamKeys} :
        e.src = "traffic-intake" /\ e.rep = r}

\* C16: when the geocoding call of a relevant report failed or its answer
\* held no coordinates, every entry stored for the report carries the
\* latitude and longitude the caller sent when both were sent, and no
\* coordinates when neither was sent.
C16_GeocoderFallbackToUser ==
    \A r \in Reports :
        (rpt[r].is_traffic_related
           /\ Answer(r, "geocoder") \in {"failed", "no_coords"}) =>
            \A e \in EntriesOf(r) :
                /\ (rpt[r].latitude = "user" /\ rpt[r].longitude = "user") =>
                       (e.lat = "user" /\ e.lon = "user")
                /\ (rpt[r].latitude = NoCoord /\ rpt[r].longitude = NoCoord) =>
                       (e.lat = NoCoord /\ e.lon = NoCoord)

\* C16 witness: a relevant report sent with both coordinates, whose
\* geocoding call failed, has an entry with the caller's coordinates in the
\* filtered stream.
C16_Witness ==
    \E r \in Reports :
        /\ rpt[r].is_traffic_related
        /\ Answer(r, "geocoder") = "failed"
        /\ \E i \in 1 .. Len(stream[FILTERED_STREAM_KEY]) :
              LET e == stream[FILTERED_STREAM_KEY][i]
              IN  e.rep = r /\ e.src = "traffic-intake"
                    /\ e.lat = "user" /\ e.lon = "user"


\* C17 as stated: the answer of a report for which an entry was appended to
\* the filtered or to the rejected stream carries that entry's id as
\* filtered_event_id.
C17_RoutedIdReturned ==
    \A r \in Reports : Done(r) =>
        \A k \in {FILTERED_STREAM_KEY, REJECTED_STREAM_KEY} :
            Wrote(r, k) = 1 =>
                /\ rpt[r].filtered_event_id # NoneId
                /\ \E i \in 1 .. Len(stream[k]) :
                      /\ stream[k][i].src = "traffic-intake"
                      /\ stream[k][i].rep = r
                      /\ stream[k][i].id = rpt[r].filtered_event_id

\* What the code does for C17: the id of an entry appended to the filtered
\* stream is returned; the id of an entry appended to the rejected stream is
\* held by rejected_event_id only and the answer carries None.
RoutedIdReturnedForFilteredOnly ==
    \A r \in Reports : Done(r) =>
        /\ Wrote(r, FILTERED_STREAM_KEY) = 1 =>
              \E i \in 1 .. Len(stream[FILTERED_STREAM_KEY]) :
                  /\ stream[FILTERED_STREAM_KEY][i].rep = r
                  /\ stream[FILTERED_STREAM_KEY][i].id = rpt[r].filtered_event_id
                  /\ rpt[r].filtered_event_id # NoneId
        /\ Wrote(r, REJECTED_STREAM_KEY) = 1 =>
              /\ rpt[r].filtered_event_id = NoneId
              /\ rpt[r].rejected_event_id # NoneId


\* The step appended exactly one entry to stream k, a flag update naming
\* orig, under an id the stream did not hold; the entries that were there
\* follow unchanged and in order, less the oldest one when the stream was
\* full.
AppendedUpdate(k, orig) ==
    LET s == stream[k]
        t == stream'[k]
        d == IF Len(s) = MAX_STREAM_LENGTH THEN 1 ELSE 0
    IN  /\ Len(t) = Len(s) + 1 - d
        /\ t[Len(t)].src = "flag-update"
        /\ t[Len(t)].orig = orig
        /\ t[Len(t)].id \notin Ids(k)
        /\ SubSeq(t, 1, Len(t) - 1) = SubSeq(s, 1 + d, Len(s))

\* C18: a flag request that answers 200 has appended one entry to the main
\* stream and then one to the filtered stream, each naming the flagged
\* event's id as original_event_id; each of the two steps leaves the other
\* streams as they were, and no step of any operation changes an entry that
\* stays in its stream.
C18_FlagAppendsLinked ==
    [][/\ (adm.pc # "flag_filtered" /\ adm'.pc = "flag_filtered") =>
              /\ AppendedUpdate(STREAM_KEY, adm'.event_id)
              /\ stream'[STREAM_KEY][Len(stream'[STREAM_KEY])].id
                    = adm'.update_id
              /\ \A k \in StreamKeys \ {STREAM_KEY} : stream'[k] = stream[k]
       /\ (adm.pc = "flag_filtered" /\ adm'.pc = "resp") =>
              IF adm'.status = 200
              THEN /\ AppendedUpdate(FILTERED_STREAM_KEY, adm.event_id)
                   /\ \A k \in StreamKeys \ {FILTERED_STREAM_KEY} :
                          stream'[k] = stream[k]
              ELSE stream' = stream
       /\ (adm'.pc = "resp" /\ adm' # adm /\ adm'.op = "flag"
             /\ adm'.status = 200) => adm.pc = "flag_filtered"
       /\ \A k \in StreamKeys : \A j \in 1 .. Len(stream'[k]) :
              stream'[k][j].id \in Ids(k) =>
                  \E i \in 1 .. Len(stream[k]) : stream[k][i] = stream'[k][j]
      ]_vars

\* C18 witness: a flag request has answered 200; both streams hold its
\* update, naming an event the main stream still holds unchanged beside it.
C18_Witness ==
    /\ adm.pc = "resp" /\ adm.op = "flag" /\ adm.status = 200
    /\ \E i, j \in 1 .. Len(stream[STREAM_KEY]) :
          /\ stream[STREAM_KEY][j].id = adm.update_id
          /\ stream[STREAM_KEY][j].src = "flag-update"
          /\ stream[STREAM_KEY][i].src = "client"
          /\ stream[STREAM_KEY][i].id = stream[STREAM_KEY][j].orig
    /\ \E j \in 1 .. Len(stream[FILTERED_STREAM_KEY]) :
          /\ stream[FILTERED_STREAM_KEY][j].id = adm.filtered_id
          /\ stream[FILTERED_STREAM_KEY][j].src = "flag-update"
          /\ stream[FILTERED_STREAM_KEY][j].orig \in Ids(STREAM_KEY)


\* C19: a report is answered 400 exactly when it has neither text other
\* than whitespace nor attachments, and a report answered 400 has made no
\* external call and appended to no stream: alone with the store, it leaves
\* the three streams empty.
C19_ValidationBeforePipeline ==
    \A r \in Reports : rpt[r].pc # "new" =>
        /\ (~rpt[r].hasText /\ ~rpt[r].hasAttachments)
              <=> rpt[r].pc = "http_400"
        /\ rpt[r].pc = "http_400" =>
              /\ rpt[r].calls = <<>>
              /\ rpt[r].wrote = <<>>
              /\ rpt[r].main_event_id = NoneId
              /\ \A k \in StreamKeys : stream[k] = <<>> /\ issued[k] = <<>>

\* C19 witness: a report without text and without attachments was answered
\* 400.
C19_Witness ==
    \E r \in Reports :
        rpt[r].pc = "http_400" /\ ~rpt[r].hasText /\ ~rpt[r].hasAttachments


\* Two characters are the same letter, whatever their case.
CasePairs ==
    {<<"S", "s">>, <<"P", "p">>, <<"A", "a">>, <<"M", "m">>, <<"J", "j">>}
SameLetter(a, b) == a = b \/ <<a, b>> \in CasePairs \/ <<b, a>> \in CasePairs
\* Phrase p occurs in text t as a substring, case ignored.
OccursIgnoringCase(t, p) ==
    \E i \in 1 .. Len(t) - Len(p) + 1 :
        \A j \in 1 .. Len(p) : SameLetter(t[i + j - 1], p[j])

\* C20: the keyword filter's answer for a text is false when a reject phrase
\* occurs in the text, case ignored, whatever traffic keywords occur in it,
\* and is otherwise true exactly when a traffic keyword occurs in the text,
\* case ignored.
C20_KeywordFilterContract ==
    \A r \in Reports : rpt[r].pc = "filtered" =>
        LET rejects == \E p \in reject_phrases :
                           OccursIgnoringCase(rpt[r].text, p)
            accepts == \E k \in traffic_keywords :
                           OccursIgnoringCase(rpt[r].text, k)
        IN  /\ rejects => ~rpt[r].has_traffic_keywords
            /\ ~rejects => (rpt[r].has_traffic_keywords <=> accepts)

\* C20 witness: the filter has answered false for a text that holds a
\* reject phrase in mixed case followed by a traffic keyword.
C20_Witness ==
    \E r \in Reports :
        /\ rpt[r].pc = "filtered"
        /\ rpt[r].text = <<"S", "P", "a", "m", "j", "a", "m">>
        /\ ~rpt[r].has_traffic_keywords


\* The severities an answer or an entry of a report may carry.
SeverityEnum == {"low", "medium", "high", "unknown", "irrelevant"}
\* The severity the evaluator of report r answered with in a parsed object.
Evaluated(r) ==
    Answer(r, "evaluator") \in EvaluatorOutcomes \ EvaluatorFailures
\* A severity with its letters in lower case.
LoweredSeverity(s) == IF s = "HIGH" THEN "high" ELSE s

\* C21 as stated: the severity of a report's answer and of its entries is in
\* the enumeration, and every severity of the evaluator that is not a member
\* of the enumeration becomes "unknown".
C21_SeverityOutsideEnumUnknown ==
    \A r \in Reports :
        /\ rpt[r].severity # "unset" => rpt[r].severity \in SeverityEnum
        /\ \A e \in EntriesOf(r) : e.severity \in SeverityEnum
        /\ (Evaluated(r) /\ AnswerFields(r).severity \notin SeverityEnum
              /\ AnswerFields(r).severity # MISSING) =>
               rpt[r].severity = "unknown"

\* C21 as the code has it: the severity of a report's answer and of its
\* entries is in the enumeration; a severity of the evaluator that is in the
\* enumeration once lower-cased is answered in lower case, every other one
\* as "unknown".
C21_SeverityInEnum ==
    \A r \in Reports :
        /\ rpt[r].severity # "unset" => rpt[r].severity \in SeverityEnum
        /\ \A e \in EntriesOf(r) :
               e.severity \in SeverityEnum /\ e.severity = rpt[r].severity
        /\ (Evaluated(r) /\ AnswerFields(r).severity # MISSING) =>
               rpt[r].severity =
                   IF LoweredSeverity(AnswerFields(r).severity) \in SeverityEnum
                   THEN LoweredSeverity(AnswerFields(r).severity)
                   ELSE "unknown"

\* C21 witness: the evaluator answered "critical" and the report's entry in
\* the main stream carries "unknown".
C21_Witness ==
    \E r \in Reports :
        /\ Evaluated(r) /\ AnswerFields(r).severity = "critical"
        /\ \E e \in EntriesOf(r) : e.severity = "unknown"

\* C21, second witness case: the evaluator answered the empty string and the
\* report answered with "unknown".
C21_EmptySeverityAnswered ==
    \E r \in Reports :
        /\ Done(r) /\ Evaluated(r) /\ AnswerFields(r).severity = ""
        /\ rpt[r].severity = "unknown"


\* The ids stream k still holds, in the order they were appended.
Surviving(k) == SelectSeq(issued[k], LAMBDA id : id \in Ids(k))
\* The last n ids of seq, the last one first.
NewestFirst(seq, n) == [i \in 1 .. n |-> seq[Len(seq) - i + 1]]

\* C22: a read of `count` entries of a stream that the store answered
\* returns no more than count ids, each smaller than the one before it:
\* the min(count, length) ids appended last among those the stream still
\* holds, the newest first; from a stream that holds nothing it returns the
\* empty list with status 200.
C22_ReadRecentNewestFirst ==
    [][(nAdm' = nAdm + 1 /\ adm'.pc = "resp" /\ adm'.op = "list"
          /\ adm'.status = 200 /\ ~adm'.unreachable) =>
          LET ev == adm'.events
              k == adm'.key
              n == IF Len(stream[k]) < adm'.count THEN Len(stream[k])
                   ELSE adm'.count
          IN  /\ Len(ev) <= adm'.count
              /\ Len(ev) = n
              /\ \A i \in 1 .. Len(ev) - 1 : IdLess(ev[i + 1], ev[i])
              /\ ev = NewestFirst(Surviving(k), n)
              /\ stream[k] = <<>> => ev = <<>>
      ]_vars

\* C22 witness: a read of one entry was answered with the newest id of a
\* stream that holds more than one entry and has lost one to an archive.
C22_Witness ==
    /\ adm.pc = "resp" /\ adm.op = "list" /\ adm.status = 200
    /\ adm.count = 1 /\ Len(adm.events) = 1
    /\ adm.key = STREAM_KEY
    /\ removed[STREAM_KEY] # {}
    /\ Len(stream[STREAM_KEY]) > 1
    /\ adm.events[1] = stream[STREAM_KEY][Len(stream[STREAM_KEY])].id

\* C22, the empty case: a read of a stream nothing was appended to was
\* answered 200 with the empty list.
C22_EmptyStreamRead ==
    /\ adm.pc = "resp" /\ adm.op = "list" /\ adm.status = 200
    /\ ~adm.unreachable /\ issued[adm.key] = <<>> /\ adm.events = <<>>


\* The degradations report r went through: the calls that fell back and
\* the store write that failed.
Degradations(r) ==
    {d \in {"classifier", "summarizer", "evaluator", "geocoder", "store"} :
        \/ d = "classifier" /\ Answer(r, d) \in ClassifierFailures
        \/ d = "summarizer" /\ Answer(r, d) \in SummarizerOutcomes \ {"ok"}
        \/ d = "evaluator" /\ Answer(r, d) \in EvaluatorFailures
        \/ d = "geocoder" /\ Answer(r, d) \in {"failed", "no_coords"}
        \/ d = "store" /\ rpt[r].store_failed}
\* What a caller can tell from the answer of report r: every field of it,
\* of the two ids only whether they are null.
Visible(r) ==
    [Response(r) EXCEPT !.main_event_id = (@ = NoneId),
                        !.filtered_event_id = (@ = NoneId)]

\* C23 as stated: two answered reports that went through different
\* degradations have answers that differ in some field.
C23_DegradationsVisible ==
    \A r1, r2 \in Reports :
        (Done(r1) /\ Done(r2) /\ Degradations(r1) # Degradations(r2)) =>
            Visible(r1) # Visible(r2)

\* What the code does for C23: a classifier fallback shows in
\* traffic_filter_reason and a failed append to the main stream in a null
\* main_event_id; a failed geocoding call leaves no trace in the answer,
\* whose toolhouse_status is a fixed text.
DegradationsVisibleInPart ==
    \A r \in Reports : Done(r) =>
        /\ ("classifier" \in Degradations(r))
              <=> (Response(r).traffic_filter_reason \in FallbackReasons)
        /\ (rpt[r].store_failed /\ rpt[r].wrote = <<>>)
              <=> (Response(r).main_event_id = NoneId)
        /\ Response(r).toolhouse_status = TOOLHOUSE_STATUS


\* The ids a sequence of entries holds.
IdsOf(s) == {s[i].id : i \in 1 .. Len(s)}
\* The ids that enter and that leave stream k in a step.
Entering(k) == IdsOf(stream'[k]) \ IdsOf(stream[k])
Leaving(k) == IdsOf(stream[k]) \ IdsOf(stream'[k])
\* The step is an append of /api/traffic-intake to stream k.
SubmitAppend(k) ==
    \E r \in Reports : rpt'[r].wrote = Append(rpt[r].wrote, k)
\* The step is an append of flag_event to stream k.
FlagAppend(k) ==
    \/ k = STREAM_KEY /\ adm.pc # "flag_filtered" /\ adm'.pc = "flag_filtered"
    \/ k = FILTERED_STREAM_KEY /\ adm.pc = "flag_filtered"
\* The step is an append of add_context_event or of handle_chat_data
\* (filter_and_store) to stream k.
FilterAndStoreAppend(k) ==
    \/ /\ k = STREAM_KEY
       /\ nAdm' = nAdm + 1
       /\ \/ adm'.pc \in {"add_filtered", "chat_filtered"}
          \/ adm'.pc = "resp" /\ adm'.op = "add"
    \/ k = FILTERED_STREAM_KEY /\ adm.pc \in {"add_filtered", "chat_filtered"}
\* The step is the archive's XDEL of the ids gone from stream k.
ArchiveRemoves(k, gone) ==
    \/ k = STREAM_KEY /\ adm'.pc = "archive_filtered" /\ gone = {adm'.id}
    \/ k = FILTERED_STREAM_KEY /\ adm.pc = "archive_filtered"
          /\ gone = {adm.id}
\* The step is the clear's trim of the rejected stream.
ClearRemoves(k) ==
    k = REJECTED_STREAM_KEY /\ adm.pc = "clear_trim" /\ stream'[k] = <<>>
\* The step is an append to the full stream k, which evicts its oldest entry.
Evicts(k, gone) ==
    /\ Entering(k) # {}
    /\ Len(stream[k]) = MAX_STREAM_LENGTH
    /\ gone = {stream[k][1].id}

\* C24 as stated: an id enters a stream only in an append of a report or of
\* a flag, and leaves it only in an archive of that id (main and filtered
\* stream) or in the clear of the rejected stream.
C24_LifecycleAsStated ==
    [][\A k \in StreamKeys :
          /\ Entering(k) # {} => (SubmitAppend(k) \/ FlagAppend(k))
          /\ Leaving(k) # {} =>
                (ArchiveRemoves(k, Leaving(k)) \/ ClearRemoves(k))
      ]_vars

\* C24 with every path the code has: an id enters a stream, one at a time,
\* only in an append of a report, of a flag, of add_context_event or of the
\* chat; it leaves only in an archive of that id (main and filtered stream),
\* in the clear of the rejected stream, or as the oldest entry of a full
\* stream that is appended to.
C24_Lifecycle ==
    [][\A k \in StreamKeys :
          /\ Entering(k) # {} =>
                /\ Cardinality(Entering(k)) = 1
                /\ SubmitAppend(k) \/ FlagAppend(k) \/ FilterAndStoreAppend(k)
          /\ Leaving(k) # {} =>
                \/ ArchiveRemoves(k, Leaving(k))
                \/ ClearRemoves(k)
                \/ Evicts(k, Leaving(k))
      ]_vars

\* C24 witness: the main stream holds an entry that add_context_event or
\* the chat appended, a report has appended to it too, and an archive has
\* removed an id from it.
C24_Witness ==
    /\ \E i \in 1 .. Len(stream[STREAM_KEY]) :
          /\ stream[STREAM_KEY][i].src = "client"
          /\ stream[STREAM_KEY][i].id \notin IdsOf(EarlierEntries)
    /\ \E r \in Reports : Wrote(r, STREAM_KEY) = 1
    /\ removed[STREAM_KEY] # {}

\* C24, the eviction: the main stream is full and has lost its oldest entry
\* to an append, no archive having removed anything.
C24_EvictionReached ==
    /\ Len(stream[STREAM_KEY]) = MAX_STREAM_LENGTH
    /\ removed[STREAM_KEY] = {}
    /\ <<0, 1>> \notin IdsOf(stream[STREAM_KEY])


\* Entry e of the filtered stream has its counterpart in the main stream:
\* an entry of the same report, or of a flag update of the same event.
InAudit(e) ==
    \E j \in 1 .. Len(stream[STREAM_KEY]) :
        /\ stream[STREAM_KEY][j].src = e.src
        /\ stream[STREAM_KEY][j].rep = e.rep
        /\ stream[STREAM_KEY][j].orig = e.orig

\* C25 as stated: in every reachable state every report and every flag
\* update that has an entry in the filtered stream has one in the main
\* stream.
C25_MemorySubsetOfAudit ==
    \A i \in 1 .. Len(stream[FILTERED_STREAM_KEY]) :
        stream[FILTERED_STREAM_KEY][i].src \in {"traffic-intake", "flag-update"}
            => InAudit(stream[FILTERED_STREAM_KEY][i])

\* What the code keeps for C25: the main stream is written first, so the
\* counterpart is there as long as nothing has left the main stream, by an
\* archive or by eviction.
MemorySubsetWhileNothingLeft ==
    Len(stream[STREAM_KEY]) = Len(issued[STREAM_KEY]) =>
        \A i \in 1 .. Len(stream[FILTERED_STREAM_KEY]) :
            stream[FILTERED_STREAM_KEY][i].src
                \in {"traffic-intake", "flag-update"}
                => InAudit(stream[FILTERED_STREAM_KEY][i])


\* The greatest of a non-empty set of ids.
MaxId(S) == CHOOSE a \in S : \A b \in S : IdLeq(b, a)

\* C26: stats that the store answered gives, for the main, the filtered and
\* the rejected stream, the number of entries the stream holds (0 for a
\* stream nothing was appended to) and as last_event_id the greatest id in
\* the main stream.
C26_StatsMatchStreams ==
    [][(nAdm' = nAdm + 1 /\ adm'.pc = "resp" /\ adm'.op = "stats"
          /\ adm'.status = 200 /\ ~adm'.unreachable) =>
          /\ adm'.total_events = Cardinality(Ids(STREAM_KEY))
          /\ adm'.memory_events = Cardinality(Ids(FILTERED_STREAM_KEY))
          /\ adm'.filtered_events = Cardinality(Ids(REJECTED_STREAM_KEY))
          /\ issued[STREAM_KEY] = <<>> => adm'.total_events = 0
          /\ issued[FILTERED_STREAM_KEY] = <<>> => adm'.memory_events = 0
          /\ issued[REJECTED_STREAM_KEY] = <<>> => adm'.filtered_events = 0
          /\ Ids(STREAM_KEY) # {} =>
                adm'.last_event_id = MaxId(Ids(STREAM_KEY))
      ]_vars

\* C26 witness: stats was answered with a full main stream that has evicted
\* an entry, one entry in the filtered stream, none in the rejected stream
\* (to which nothing was appended) and the newest main id.
C26_Witness ==
    /\ adm.pc = "resp" /\ adm.op = "stats" /\ adm.status = 200
    /\ ~adm.unreachable
    /\ adm.total_events = MAX_STREAM_LENGTH
    /\ Len(issued[STREAM_KEY]) > MAX_STREAM_LENGTH
    /\ adm.memory_events = 1
    /\ adm.filtered_events = 0 /\ issued[REJECTED_STREAM_KEY] = <<>>
    /\ adm.last_event_id = stream[STREAM_KEY][Len(stream[STREAM_KEY])].id


\* ----- C27
\* The texts of a JSON object, with or without whitespace inside, and the
\* object each one denotes.
ObjectTexts ==
    {<<"{", "}">>, <<"{", "a", "}">>, <<"{", " ", "a", " ", "}">>}
ObjectOf(o) == IF \E i \in 1 .. Len(o) : o[i] = "a" THEN "{a}" ELSE "{}"
\* An object text inside a Markdown fenced block tagged json.
Fenced(o, b1, b2) == FENCE \o JSON_TAG \o b1 \o o \o b2 \o FENCE
\* A text no JSON value can be read from: no part of it is an object text,
\* whatever whitespace it holds, or a number.
Unparsable(p) ==
    /\ \A i, j \in 1 .. Len(p) :
          NoSpace(SubSeq(p, i, j)) \notin {<<"{", "}">>, <<"{", "a", "}">>}
    /\ \A i \in 1 .. Len(p) : p[i] # "7"

\* C27: extract_json_block returns the same object for an object text given
\* bare and for the same text inside a fenced block tagged json, and it
\* returns the empty object for an empty text and for a text no JSON value
\* can be read from.
C27_FenceInsensitive ==
    rpt[1].pc = "extracted" =>
        /\ \A o \in ObjectTexts : \A b1, b2 \in Blanks :
              rpt[1].text \in {o, b1 \o o \o b2, Fenced(o, b1, b2)}
                  => rpt[1].parsed_payload = ObjectOf(o)
        /\ Unparsable(rpt[1].text) => rpt[1].parsed_payload = "{}"

\* C27 witness: the object with its member was read from a fenced block.
C27_Witness ==
    /\ rpt[1].pc = "extracted"
    /\ rpt[1].text = Fenced(<<"{", "a", "}">>, <<" ">>, <<" ">>)
    /\ rpt[1].parsed_payload = "{a}"

\* C27, the other cases: the same object was read from the bare text, and a
\* text with a fence and no JSON in it gave the empty object.
C27_BareRead ==
    /\ rpt[1].pc = "extracted"
    /\ rpt[1].text = <<"{", "a", "}">>
    /\ rpt[1].parsed_payload = "{a}"
C27_UnparsableRead ==
    /\ rpt[1].pc = "extracted"
    /\ Unparsable(rpt[1].text)
    /\ Len(rpt[1].text) > Len(FENCE)
    /\ rpt[1].parsed_payload = "{}"


\* ----- C28
\* The external calls in the order the claim gives them.
StageOrder == <<"classifier", "summarizer", "evaluator", "geocoder">>
StageRank(name) == CHOOSE i \in 1 .. Len(StageOrder) : StageOrder[i] = name
LastCall(r) == rpt[r].calls[Len(rpt[r].calls)].call
\* The step of report r is the call named in c, made at its place.
CallInOrder(r, c) ==
    /\ rpt'[r].calls = Append(rpt[r].calls, c)
    /\ rpt[r].pc # "new"
    /\ rpt[r].wrote = <<>> /\ rpt'[r].wrote = <<>>
    /\ rpt[r].calls # <<>> => StageRank(LastCall(r)) < StageRank(c.call)
    /\ c.call = "classifier" => rpt[r].has_traffic_keywords
    /\ c.call = "summarizer" =>
          /\ rpt[r].calls # <<>> /\ LastCall(r) = "classifier"
          /\ rpt[r].is_traffic_related
    /\ c.call = "evaluator" =>
          /\ rpt[r].calls # <<>> /\ LastCall(r) = "summarizer"
          /\ rpt[r].is_traffic_related
    /\ c.call = "geocoder" =>
          /\ rpt[r].calls # <<>> /\ LastCall(r) = "evaluator"
          /\ rpt[r].is_traffic_related
    /\ rpt'[r].is_traffic_related = rpt[r].is_traffic_related
          \/ c.call = "classifier"
\* The step of report r is an append, made at its place: the main stream
\* first, then the filtered or the rejected stream, after every call.
AppendInOrder(r) ==
    /\ rpt'[r].calls = rpt[r].calls
    /\ \/ /\ rpt[r].wrote = <<>>
          /\ rpt'[r].wrote = <<STREAM_KEY>>
       \/ /\ rpt[r].wrote = <<STREAM_KEY>>
          /\ rpt'[r].wrote \in {<<STREAM_KEY, FILTERED_STREAM_KEY>>,
                                <<STREAM_KEY, REJECTED_STREAM_KEY>>}

\* C28: the stages of one report run one after the other in the order
\* keyword filter, classifier, summarizer, evaluator, geocoder, append to the
\* main stream, append to the filtered or the rejected stream; the
\* summarizer, the evaluator and the geocoder are called only for a report
\* whose is_traffic_related is true.
C28_StagesInOrder ==
    [][\A r \in Reports :
          /\ rpt'[r].calls # rpt[r].calls =>
                \E c \in {rpt'[r].calls[Len(rpt'[r].calls)]} : CallInOrder(r, c)
          /\ rpt'[r].wrote # rpt[r].wrote => AppendInOrder(r)]_vars

\* C28 witness: a report went through the four calls and both appends.
C28_Witness ==
    \E r \in Reports :
        /\ [i \in 1 .. Len(rpt[r].calls) |-> rpt[r].calls[i].call] = StageOrder
        /\ rpt[r].wrote = <<STREAM_KEY, FILTERED_STREAM_KEY>>
        /\ rpt[r].is_traffic_related

\* C28, the other case: a report the classifier rejected went from the
\* classifier to the appends.
C28_RejectedStored ==
    \E r \in Reports :
        /\ [i \in 1 .. Len(rpt[r].calls) |-> rpt[r].calls[i].call]
              = <<"classifier">>
        /\ rpt[r].wrote = <<STREAM_KEY, REJECTED_STREAM_KEY>>
        /\ ~rpt[r].is_traffic_related


\* ----- C29
\* The number of calls of one name report r has made.
TimesCalled(r, name) ==
    Cardinality({i \in 1 .. Len(rpt[r].calls) : rpt[r].calls[i].call = name})

\* C29: while one report is processed, the classifier, the summarizer, the
\* evaluator and the geocoder each receive at most one request, and at most
\* one append is made per stream, whatever fails.
C29_NoRetries ==
    \A r \in Reports :
        /\ \A name \in {"classifier", "summarizer", "evaluator", "geocoder"} :
              TimesCalled(r, name) <= 1
        /\ \A i \in 1 .. Len(rpt[r].calls) : ~rpt[r].calls[i].resent
        /\ \A k \in StreamKeys : Wrote(r, k) <= 1

\* C29, the part that holds: the handler itself makes each call at most
\* once and at most one append per stream, and an append that failed is
\* followed by no other.
HandlerCallsOnce ==
    \A r \in Reports :
        /\ \A name \in {"classifier", "summarizer", "evaluator", "geocoder"} :
              TimesCalled(r, name) <= 1
        /\ \A k \in StreamKeys : Wrote(r, k) <= 1
        /\ rpt[r].store_failed => rpt[r].pc = AfterStoreFailure


\* ----- C30
\* C30: a clear of the rejected stream that answers success reports the
\* number of entries the stream holds at the instant of its trim, which is
\* the number it removes, also when reports are appended to the stream
\* while the request runs.
C30_ClearAtomic ==
    [][(adm.pc = "clear_trim" /\ adm'.pc = "resp" /\ adm'.status = 200
          /\ ~adm.readRaised) =>
            /\ adm'.deleted_count = Len(stream[REJECTED_STREAM_KEY])
            /\ stream'[REJECTED_STREAM_KEY] = <<>>]_vars

\* C30, the part that holds: the trim leaves the stream empty, and the count
\* is the one of the earlier read: it is the number removed when nothing
\* was appended in between, and never above it.
ClearCountIsOfTheRead ==
    [][(adm.pc = "clear_trim" /\ adm'.pc = "resp" /\ adm'.status = 200
          /\ ~adm.readRaised) =>
            /\ stream'[REJECTED_STREAM_KEY] = <<>>
            /\ adm'.deleted_count = adm.lenAtCall
            /\ adm'.deleted_count <= Len(stream[REJECTED_STREAM_KEY])
            /\ ~adm.interfered =>
                  adm'.deleted_count = Len(stream[REJECTED_STREAM_KEY])]_vars


\* ----- C31
\* The step is one of flag_event, of archive_event, of
\* delete_all_rejected_events: the request's first command or its second.
FlagStep ==
    \/ /\ nAdm' = nAdm + 1
       /\ \/ adm'.pc = "flag_filtered"
          \/ adm'.pc = "resp" /\ adm'.op = "flag"
    \/ adm.pc = "flag_filtered" /\ adm'.pc = "resp"
ArchiveStep ==
    \/ /\ nAdm' = nAdm + 1
       /\ \/ adm'.pc = "archive_filtered"
          \/ adm'.pc = "resp" /\ adm'.op = "archive"
    \/ adm.pc = "archive_filtered" /\ adm'.pc = "resp"
ClearStep ==
    \/ /\ nAdm' = nAdm + 1
       /\ \/ adm'.pc = "clear_trim"
          \/ adm'.pc = "resp" /\ adm'.op = "clear"
    \/ adm.pc = "clear_trim" /\ adm'.pc = "resp"

\* C31: no step of a flag or of an archive changes the rejected stream, no
\* step of the clear changes the main or the filtered stream, and an entry
\* leaves the rejected stream only in the clear's trim or evicted by an
\* append to the full stream.
C31_RejectedFrame ==
    [][/\ (FlagStep \/ ArchiveStep) =>
             stream'[REJECTED_STREAM_KEY] = stream[REJECTED_STREAM_KEY]
       /\ ClearStep =>
             /\ stream'[STREAM_KEY] = stream[STREAM_KEY]
             /\ stream'[FILTERED_STREAM_KEY] = stream[FILTERED_STREAM_KEY]
       /\ Leaving(REJECTED_STREAM_KEY) # {} =>
             \/ ClearRemoves(REJECTED_STREAM_KEY)
             \/ Evicts(REJECTED_STREAM_KEY, Leaving(REJECTED_STREAM_KEY))
      ]_vars

\* C31 witness: a flag has appended its update and an archive has removed
\* an entry while the rejected stream held a report's entry, which it
\* still holds.
C31_Witness ==
    /\ stream[REJECTED_STREAM_KEY] # <<>>
    /\ \E r \in Reports :
          rpt[r].rejected_event_id \in IdsOf(stream[REJECTED_STREAM_KEY])
    /\ \E i \in 1 .. Len(stream[FILTERED_STREAM_KEY]) :
          stream[FILTERED_STREAM_KEY][i].src = "flag-update"
    /\ removed[STREAM_KEY] # {}
    /\ adm.pc = "resp" /\ adm.op = "archive" /\ adm.status = 200

\* C31, the clear: it has emptied the rejected stream of a report's entry
\* and the main stream holds what it held.
C31_ClearedBesideMain ==
    /\ adm.pc = "resp" /\ adm.op = "clear" /\ adm.status = 200
    /\ removed[REJECTED_STREAM_KEY] # {}
    /\ stream[REJECTED_STREAM_KEY] = <<>>
    /\ Len(stream[STREAM_KEY]) = MAX_STREAM_LENGTH


\* ----- C32
\* The entries of report r in a sequence of entries.
EntriesOfReport(s, r) ==
    {i \in 1 .. Len(s) : s[i].src = "traffic-intake" /\ s[i].rep = r}
\* The step is the second XDEL of an archive that answers success and was
\* called with the main_event_id that the answer to report r gave, r having
\* been appended to the filtered stream.
ArchivesReport(r) ==
    /\ adm.pc = "archive_filtered" /\ adm'.pc = "resp" /\ adm'.status = 200
    /\ adm.rep = r
    /\ rpt[r].filtered_event_id # NoneId

\* C32: an archive called with the main_event_id returned for a report that
\* went to the filtered stream removes that report's entries and no others:
\* afterwards the report has an entry neither in the main nor in the
\* filtered stream, and nothing else has left the filtered stream.
C32_ArchiveRemovesReport ==
    [][\A r \in Reports : ArchivesReport(r) =>
          /\ EntriesOfReport(stream'[STREAM_KEY], r) = {}
          /\ EntriesOfReport(stream'[FILTERED_STREAM_KEY], r) = {}
          /\ \A i \in 1 .. Len(stream[FILTERED_STREAM_KEY]) :
                stream[FILTERED_STREAM_KEY][i].id
                    \in Leaving(FILTERED_STREAM_KEY)
                    => i \in EntriesOfReport(stream[FILTERED_STREAM_KEY], r)
      ]_vars

\* C32, the part that holds: such an archive leaves the report without an
\* entry in the main stream and takes from the filtered stream the entry
\* that has the same id, if there is one, whose ever it is; the report's
\* entry there goes when its id is the one of the main stream.
ArchiveRemovesById ==
    [][\A r \in Reports : ArchivesReport(r) =>
          /\ EntriesOfReport(stream'[STREAM_KEY], r) = {}
          /\ Leaving(FILTERED_STREAM_KEY)
                = {adm.id} \cap IdsOf(stream[FILTERED_STREAM_KEY])
          /\ rpt[r].filtered_event_id = rpt[r].main_event_id =>
                EntriesOfReport(stream'[FILTERED_STREAM_KEY], r) = {}
      ]_vars


\* ----- C33
\* The relevance verdict of report r is final: its handler is past the
\* keyword filter and, if it called the AI filter, past its answer.
Judged(r) == Filtered(r) /\ rpt[r].pc # "classify"

\* C33 as stated: a report is relevant exactly when the keyword filter
\* passed it and the AI filter did not return an object whose
\* is_traffic_related is false.
C33_VerdictExact ==
    \A r \in Reports : Judged(r) =>
        (rpt[r].is_traffic_related
            <=> /\ rpt[r].has_traffic_keywords
                /\ Answer(r, "classifier") \notin {"false", "false_no_reason"})

\* C33 amended: a report is relevant exactly when the keyword filter passed
\* it and the AI filter did not return an object whose is_traffic_related
\* is false or null (any value Python takes for false); in particular an
\* object with false makes a report with keywords not relevant.
C33_VerdictFalsy ==
    \A r \in Reports : Judged(r) =>
        (rpt[r].is_traffic_related
            <=> /\ rpt[r].has_traffic_keywords
                /\ Answer(r, "classifier")
                      \notin {"false", "false_no_reason", "null"})

\* C33 witness: the keyword filter passed a report and the AI filter's
\* false made it not relevant.
C33_Witness ==
    \E r \in Reports :
        /\ Judged(r) /\ rpt[r].has_traffic_keywords
        /\ Answer(r, "classifier") = "false"
        /\ ~rpt[r].is_traffic_related

\* C33, the other cases: a null made a report not relevant, and a report
\* was relevant after an answer that could not be read.
C33_NullRejected ==
    \E r \in Reports :
        /\ Judged(r) /\ rpt[r].has_traffic_keywords
        /\ Answer(r, "classifier") = "null"
        /\ ~rpt[r].is_traffic_related
C33_UnreadAccepted ==
    \E r \in Reports :
        /\ Judged(r) /\ Answer(r, "classifier") = "unparsable"
        /\ rpt[r].is_traffic_related


\* ----- C34
\* What the code keeps for every report that is not relevant: the answer
\* has include_in_context false and severity "irrelevant", every entry
\* stored for it has severity "irrelevant", the evaluator was not asked and
\* the filtered stream has no entry of the report.
NonRelevantForced(r) ==
    /\ ~rpt[r].include_flag
    /\ rpt[r].severity = "irrelevant"
    /\ Done(r) => /\ ~Response(r).include_in_context
                  /\ Response(r).severity = "irrelevant"
                  /\ Response(r).filtered_event_id = NoneId
    /\ \A e \in EntriesOf(r) : e.severity = "irrelevant"
    /\ Answer(r, "evaluator") = "not called"
    /\ Wrote(r, FILTERED_STREAM_KEY) = 0
    /\ EntriesOfReport(stream[FILTERED_STREAM_KEY], r) = {}

\* C34 as stated: for every report that is not relevant, the answer and the
\* stored metadata have include_in_context false and severity "irrelevant",
\* and the report gets no entry in the filtered stream.
C34_NonRelevantAnswerAndMetadata ==
    \A r \in Reports : (Judged(r) /\ ~rpt[r].is_traffic_related) =>
        /\ NonRelevantForced(r)
        /\ EntriesOf(r) # {} => "include_in_context" \in ContextMetadataKeys

\* C34 amended: for every report that is not relevant, the answer has
\* include_in_context false and severity "irrelevant", the stored metadata
\* has severity "irrelevant" (include_in_context is not among its keys),
\* and the report gets no entry in the filtered stream, the evaluator not
\* being asked.
C34_NonRelevantForced ==
    \A r \in Reports : (Judged(r) /\ ~rpt[r].is_traffic_related) =>
        /\ NonRelevantForced(r)
        /\ "include_in_context" \notin ContextMetadataKeys

\* C34 witness: a report the AI filter rejected was answered and has its
\* entries in the main and in the rejected stream.
C34_Witness ==
    \E r \in Reports :
        /\ Done(r) /\ ~rpt[r].is_traffic_related
        /\ Answer(r, "classifier") = "false"
        /\ rpt[r].wrote = <<STREAM_KEY, REJECTED_STREAM_KEY>>
        /\ \E e \in EntriesOf(r) : e.severity = "irrelevant"


\* ----- C35
\* The step is the second append of report r, made or failed.
SecondaryAttempt(r) ==
    /\ rpt[r].pc = "route"
    /\ rpt'[r].pc # "route" \/ rpt'[r].wrote # rpt[r].wrote

\* C35: a report that has an entry in the filtered or in the rejected
\* stream, or has appended to one of them, appended to the main stream
\* first and holds the id that append returned; and the second append of a
\* report, and of add_context_event, is attempted only when the append to
\* the main stream has returned an id.
C35_AuditFirst ==
    /\ [](\A r \in Reports :
            (\/ Wrote(r, FILTERED_STREAM_KEY) + Wrote(r, REJECTED_STREAM_KEY) > 0
             \/ EntriesOfReport(stream[FILTERED_STREAM_KEY], r) # {}
             \/ EntriesOfReport(stream[REJECTED_STREAM_KEY], r) # {})
            => /\ rpt[r].wrote[1] = STREAM_KEY
               /\ rpt[r].main_event_id # NoneId
               /\ \E i \in 1 .. Len(issued[STREAM_KEY]) :
                     issued[STREAM_KEY][i] = rpt[r].main_event_id)
    /\ [][/\ \A r \in Reports : SecondaryAttempt(r) =>
                /\ rpt[r].wrote = <<STREAM_KEY>>
                /\ rpt[r].main_event_id # NoneId
          /\ (adm.pc = "add_filtered" /\ adm'.pc = "resp") =>
                \E i \in 1 .. Len(issued[STREAM_KEY]) :
                    issued[STREAM_KEY][i] = adm.main_event_id]_vars

\* C35 witness: a report has its entry in the rejected stream, after its
\* append to the main stream returned the id it holds.
C35_Witness ==
    \E r \in Reports :
        /\ EntriesOfReport(stream[REJECTED_STREAM_KEY], r) # {}
        /\ rpt[r].wrote = <<STREAM_KEY, REJECTED_STREAM_KEY>>
        /\ rpt[r].main_event_id # NoneId

\* C35, the other cases: the append to the main stream failed and the
\* report was answered with nothing appended; the second append failed
\* after the first.
C35_NothingAfterFailedAudit ==
    \E r \in Reports :
        /\ Done(r) /\ rpt[r].store_failed /\ rpt[r].wrote = <<>>
        /\ rpt[r].main_event_id = NoneId
        /\ EntriesOfReport(stream[FILTERED_STREAM_KEY], r) = {}
        /\ EntriesOfReport(stream[REJECTED_STREAM_KEY], r) = {}
C35_SecondaryFailed ==
    \E r \in Reports :
        Done(r) /\ rpt[r].store_failed /\ rpt[r].wrote = <<STREAM_KEY>>


\* ----- C36
\* The step is the geocoding call of report r.
GeocodeStep(r) == rpt[r].pc = "geocode" /\ rpt'[r].pc # "geocode"

\* C36: the geocoding call is made for a relevant report with text; when
\* coordinates are read from its answer they replace whatever the caller
\* sent, and every entry stored for the report carries them; an entry
\* carries the caller's coordinates only when the call failed, gave no
\* coordinates or was not made.
C36_AgentCoordsOverride ==
    /\ [][\A r \in Reports : GeocodeStep(r) =>
             /\ rpt[r].is_traffic_related /\ rpt[r].hasText
             /\ Answer(r, "geocoder")' = "coords" =>
                   rpt'[r].latitude = "agent" /\ rpt'[r].longitude = "agent"
             /\ Answer(r, "geocoder")' \in {"failed", "no_coords", "not called"}
                   => /\ rpt'[r].latitude = rpt[r].latitude
                      /\ rpt'[r].longitude = rpt[r].longitude]_vars
    /\ [](\A r \in Reports : \A e \in EntriesOf(r) :
            /\ Answer(r, "geocoder") = "coords" =>
                  e.lat = "agent" /\ e.lon = "agent"
            /\ (e.lat = "user" \/ e.lon = "user") =>
                  Answer(r, "geocoder")
                      \in {"failed", "no_coords", "not called"})

\* C36 witness: a relevant report with text, for which the agent gave
\* coordinates, has an entry with the agent's in the filtered stream.
C36_Witness ==
    \E r \in Reports :
        /\ Answer(r, "geocoder") = "coords"
        /\ Response(r).is_traffic_related /\ rpt[r].hasText
        /\ \E i \in 1 .. Len(stream[FILTERED_STREAM_KEY]) :
              LET e == stream[FILTERED_STREAM_KEY][i]
              IN  e.rep = r /\ e.src = "traffic-intake"
                    /\ e.lat = "agent" /\ e.lon = "agent"


\* A report sent with attachments and no text other than whitespace, past
\* validation and the preparation of its attachments.
AttachmentsOnly(r) ==
    Filtered(r) /\ rpt[r].hasAttachments /\ ~rpt[r].hasText

\* The blank texts among AllTexts.
BlankTexts == {<<>>, <<" ">>, <<" ", " ">>, <<" ", " ", " ">>}

FlagFailsSecond ==
    adm.pc = "flag_filtered" /\ adm'.pc = "resp" /\ adm'.status = 500

\* C38: when the second append of a flag raises after the first one was
\* made, the step that answers 500 changes no stream, and the update the
\* first append added is still in the main stream under the id it was
\* given, unless later appends to the full main stream have evicted it.
C38_FlagNotAtomic ==
    [][FlagFailsSecond =>
          /\ adm'.op = "flag"
          /\ stream' = stream
          /\ \/ \E j \in 1 .. Len(stream'[STREAM_KEY]) :
                    stream'[STREAM_KEY][j]
                        = [FlagEvent(adm.event_id) EXCEPT !.id = adm.update_id]
             \/ /\ Len(stream'[STREAM_KEY]) = MAX_STREAM_LENGTH
                /\ \A j \in 1 .. Len(stream'[STREAM_KEY]) :
                       IdLess(adm.update_id, stream'[STREAM_KEY][j].id)
      ]_vars

\* C38 witness: the only admin request made is a flag that answered 500,
\* and the main stream holds its update while the filtered stream holds
\* no update.
C38_Witness ==
    /\ nAdm = 1
    /\ adm.pc = "resp" /\ adm.op = "flag" /\ adm.status = 500
    /\ \E j \in 1 .. Len(stream[STREAM_KEY]) :
           stream[STREAM_KEY][j].src = "flag-update"
    /\ \A j \in 1 .. Len(stream[FILTERED_STREAM_KEY]) :
           stream[FILTERED_STREAM_KEY][j].src # "flag-update"

\* C38: the update of the failed flag has since been evicted by appends.
C38_UpdateEvicted ==
    /\ nAdm = 1
    /\ adm.pc = "resp" /\ adm.op = "flag" /\ adm.status = 500
    /\ Len(issued[STREAM_KEY]) > MAX_STREAM_LENGTH
    /\ \A j \in 1 .. Len(stream[STREAM_KEY]) :
           stream[STREAM_KEY][j].src # "flag-update"

====
